---- MODULE Spec2Model ----
(***************************************************************************)
(* Repository entity manager over the conditional store.                   *)
(*                                                                         *)
(* The manager class (src/api/リポジトリ/リポジトリリポジトリ.py) defines  *)
(* most of its methods twice in one class body. Python binds a method name *)
(* to the LAST definition of the class body, so the operations modelled    *)
(* here are the second definitions (lines 417-783); the first definitions  *)
(* (lines 83-414) are shadowed and never run.                              *)
(*                                                                         *)
(* Source identifiers are Japanese; TLA+ identifiers are ASCII, so each    *)
(* definition carries the source name in its comment.                      *)
(*                                                                         *)
(* The table is read and written through boto3. Its operations are taken   *)
(* as atomic and strongly consistent, with DynamoDB's parameter semantics: *)
(* a ConditionExpression is evaluated atomically with the write, and the   *)
(* Limit of a scan or query bounds the items EVALUATED, before any filter  *)
(* expression is applied.                                                  *)
(***************************************************************************)
EXTENDS Integers, Sequences, FiniteSets, TLC

\* ------------------------------------------------------------------ bounds

\* Readings of datetime.now() that get stored: every successful stamped write
\* reads a fresh, later instant. At most MaxClock such writes happen in a run.
MaxClock == 3

\* Values リポジトリIDを生成 can return ("repo-" + 8 hex digits of a uuid4).
RepoIds == {"repo-0000000a", "repo-0000000b", "repo-0000000c"}

\* Concurrent callers of リポジトリを作成 (separate requests or hosts).
Callers == {"w1", "w2"}

\* Spec and SpecCreate generate ids among two, SpecRegister among three.
FewIds == {"repo-0000000a", "repo-0000000b"}

\* The order in which a DynamoDB Scan walks the keys follows the hash of
\* the partition key: fixed for a table, any order of the generated ids.
\* Every operation treats the ids alike, so one order stands for all.
KeyOrder == <<"repo-0000000a", "repo-0000000b", "repo-0000000c">>

\* --------------------------------------------------------- value domains

\* リポジトリステータス
READY == "READY"
PARSING == "PARSING"
FAILED == "FAILED"
RepositoryStatus == <<READY, PARSING, FAILED>>

\* リポジトリプロバイダー
GITHUB == "github"
CODECOMMIT == "codecommit"

\* Optional[...] = None: an absent status argument, an attribute a stored
\* item does not carry.
NoStatus == "None"
NoSha == "None"
NoTime == -1
\* 制限数 = None (also 0: the code tests `if 制限数:`)
NoLimit == 0

\* Exceptions of DynamoDB基底.py
DynamoDBError == "DynamoDBError"
ItemNotFoundError == "ItemNotFoundError"
ConditionCheckError == "ConditionCheckError"

\* Condition expressions the manager passes to the store
CondNone == "none"
CondIdNotExists == "attribute_not_exists(repo_id)"
CondIdExists == "attribute_exists(repo_id)"
CondLive == "attribute_exists(repo_id) AND (attribute_not_exists(deleted) OR deleted = :false)"

\* A URL is a sequence of tokens: a literal chunk of the grammar, a
\* separator, or a name (a non-empty run of characters with no "/" or ":").
UrlWidgets == <<"https://github.com/", "acme", "/", "widgets">>
UrlDocs == <<"codecommit://", "docs">>
UrlNoRepo == <<"https://github.com/", "acme">>

\* A display name is a sequence of characters.
NameWidgets == <<"W", "i">>
NameDocsPadded == <<" ", "D">>
NameDocs == <<"D">>

\* ----------------------------------------------------------- sequences

Range(s) == {s[i] : i \in 1..Len(s)}

\* s[:n] of Python, n >= 0
Take(s, n) == SubSeq(s, 1, IF n <= Len(s) THEN n ELSE Len(s))

\* list.sort(key=..., reverse=True) on 更新日時: a stable insertion of each
\* element after the elements that are not older than it.
RECURSIVE InsertByUpdated(_, _)
InsertByUpdated(sorted, r) ==
    IF sorted = <<>> THEN <<r>>
    ELSE IF Head(sorted).updated_at >= r.updated_at
         THEN <<Head(sorted)>> \o InsertByUpdated(Tail(sorted), r)
         ELSE <<r>> \o sorted

RECURSIVE SortByUpdatedDesc(_)
SortByUpdatedDesc(s) ==
    IF s = <<>> THEN <<>>
    ELSE InsertByUpdated(SortByUpdatedDesc(SubSeq(s, 1, Len(s) - 1)), s[Len(s)])

\* ------------------------------------------------ model リポジトリ (pydantic)

\* [^/]+ of the URL patterns: a name token
IsName(tok) == tok \notin {"https://github.com/", "git@github.com:", "codecommit://",
                           "codecommit::", "://", "/", ":", ".git", "https://git-codecommit.",
                           ".amazonaws.com/v1/repos/"}

\* [^/]+ where the run may also end in the chunk ".git" (which holds no "/")
IsNameRun(toks) ==
    /\ Len(toks) \in {1, 2}
    /\ IsName(toks[1])
    /\ Len(toks) = 2 => toks[2] = ".git"

\* リポジトリ.URL妥当性を検証: re.match of the provider's patterns
URLIsValid(provider, v) ==
    IF provider = GITHUB
    THEN \/ /\ Len(v) = 5                       \* ^https://github\.com/[^/]+/[^/]+\.git$
            /\ v[1] = "https://github.com/" /\ IsName(v[2]) /\ v[3] = "/"
            /\ IsName(v[4]) /\ v[5] = ".git"
         \/ /\ Len(v) \in {4, 5}                  \* ^https://github\.com/[^/]+/[^/]+$
            /\ v[1] = "https://github.com/" /\ IsName(v[2]) /\ v[3] = "/"
            /\ IsNameRun(SubSeq(v, 4, Len(v)))
         \/ /\ Len(v) = 5                       \* ^git@github\.com:[^/]+/[^/]+\.git$
            /\ v[1] = "git@github.com:" /\ IsName(v[2]) /\ v[3] = "/"
            /\ IsName(v[4]) /\ v[5] = ".git"
    ELSE IF provider = CODECOMMIT
    THEN \/ /\ Len(v) \in {2, 3}                  \* ^codecommit://[^/]+$
            /\ v[1] = "codecommit://" /\ IsNameRun(SubSeq(v, 2, Len(v)))
         \/ /\ Len(v) \in {4, 5}                  \* ^codecommit::[^:]+://[^/]+$
            /\ v[1] = "codecommit::" /\ IsName(v[2]) /\ v[3] = "://"
            /\ IsNameRun(SubSeq(v, 4, Len(v)))
         \/ /\ Len(v) \in {5, 6}                  \* ^https://git-codecommit\.[^.]+\.amazonaws\.com/v1/repos/[^/]+$
            /\ v[1] = "https://git-codecommit." /\ IsName(v[2])
            /\ v[3] = ".amazonaws.com/v1/repos/" /\ IsNameRun(SubSeq(v, 4, Len(v)))
    ELSE TRUE

\* str.strip()
RECURSIVE StripLeft(_)
StripLeft(v) == IF v # <<>> /\ Head(v) = " " THEN StripLeft(Tail(v)) ELSE v

RECURSIVE StripRight(_)
StripRight(v) ==
    IF v # <<>> /\ v[Len(v)] = " " THEN StripRight(SubSeq(v, 1, Len(v) - 1)) ELSE v

Strip(v) == StripRight(StripLeft(v))

\* リポジトリ.表示名妥当性を検証: the length limit of the raw value
DisplayNameMaxLen == 100

DisplayNameIsValid(v) == ~(v = <<>> \/ Len(Strip(v)) = 0) /\ ~(Len(v) > DisplayNameMaxLen)

\* リポジトリ(...): the constructor with its validators; <<>> stands for the
\* ValueError a validator raises, <<r>> for the constructed object r.
Repository(id, provider, url, name, branch, status, sha, scanAt, createdAt, updatedAt, deletedFlag) ==
    IF URLIsValid(provider, url) /\ DisplayNameIsValid(name)
    THEN << [repo_id |-> id, provider |-> provider, remote_url |-> url,
             display_name |-> Strip(name), default_branch |-> branch, status |-> status,
             last_scan_sha |-> sha, last_scan_at |-> scanAt,
             created_at |-> createdAt, updated_at |-> updatedAt, deleted |-> deletedFlag] >>
    ELSE <<>>

\* リポジトリ.DynamoDB項目に変換: the stored item. The optional attributes are
\* written only when set (NoSha, NoTime mark an attribute the item lacks).
\* datetime.isoformat() strings order as the instants do, so a timestamp is
\* kept as its instant. 'metadata' is always {} and is left out.
ToDynamoDBItem(r) ==
    [repo_id |-> r.repo_id, provider |-> r.provider, remote_url |-> r.remote_url,
     display_name |-> r.display_name, default_branch |-> r.default_branch,
     status |-> r.status, created_at |-> r.created_at, updated_at |-> r.updated_at,
     deleted |-> r.deleted,
     last_scan_sha |-> IF r.last_scan_sha # NoSha THEN r.last_scan_sha ELSE NoSha,
     last_scan_at |-> IF r.last_scan_at # NoTime THEN r.last_scan_at ELSE NoTime]

\* リポジトリ.DynamoDB項目から作成: the object of a stored item, through the
\* constructor and its validators.
FromDynamoDBItem(item) ==
    Repository(item.repo_id, item.provider, item.remote_url, item.display_name,
               item.default_branch, item.status, item.last_scan_sha, item.last_scan_at,
               item.created_at, item.updated_at, item.deleted)

\* ------------------------------------------- store (DynamoDB基底リポジトリ)

VARIABLES
    table,      \* the repos table: stored item by repo_id, for the ids present
    scanOrder,  \* the order in which a Scan walks the keys (fixed per table)
    clock,      \* the latest instant a stored timestamp was read at
    pending,    \* per caller: the create request that has passed its URL check
    job,        \* the ジョブ value accepted last, <<>> before the first
    calls,      \* per caller: the manager call it is in, <<>> when in none
    ret         \* the step taken last: operation, arguments, outcome

vars == <<table, scanOrder, clock, pending, job, calls, ret>>

\* A ConditionExpression evaluated against the item stored under the key
ConditionHolds(tbl, id, cond) ==
    CASE cond = CondNone -> TRUE
      [] cond = CondIdNotExists -> id \notin DOMAIN tbl
      [] cond = CondIdExists -> id \in DOMAIN tbl
      [] cond = CondLive -> /\ id \in DOMAIN tbl
                            /\ \/ "deleted" \notin DOMAIN tbl[id]
                               \/ tbl[id].deleted = FALSE

\* アイテムを取得: the item, or None (<<>>)
GetItem(tbl, id) == IF id \in DOMAIN tbl THEN <<tbl[id]>> ELSE <<>>

\* アイテムを保存: put_item, replacing any item under the same key.
\* ok = FALSE is DynamoDB条件チェックエラー.
PutItem(tbl, item, cond) ==
    IF ConditionHolds(tbl, item.repo_id, cond)
    THEN [ok |-> TRUE,
          table |-> [i \in DOMAIN tbl \cup {item.repo_id} |->
                        IF i = item.repo_id THEN item ELSE tbl[i]]]
    ELSE [ok |-> FALSE, table |-> tbl]

\* An update that writes first and evaluates its condition afterwards
UpdateItemWriteThenCheck(tbl, id, assign, cond) ==
    LET old == IF id \in DOMAIN tbl THEN tbl[id] ELSE [repo_id |-> id]
        new == assign @@ old
    IN [ok |-> ConditionHolds(tbl, id, cond),
        attributes |-> IF ConditionHolds(tbl, id, cond) THEN <<new>> ELSE <<>>,
        table |-> [i \in DOMAIN tbl \cup {id} |-> IF i = id THEN new ELSE tbl[i]]]

\* アイテムを更新: update_item with a SET expression, ReturnValues ALL_NEW.
\* `assign` maps the attributes of the SET expression to their new values.
\* Without a condition update_item creates a missing item from the key and
\* the SET attributes; every caller here passes CondLive.
UpdateItem(tbl, id, assign, cond) ==
    IF ConditionHolds(tbl, id, cond)
    THEN LET old == IF id \in DOMAIN tbl THEN tbl[id] ELSE [repo_id |-> id]
             new == assign @@ old
         IN [ok |-> TRUE, attributes |-> <<new>>,
             table |-> [i \in DOMAIN tbl \cup {id} |-> IF i = id THEN new ELSE tbl[i]]]
    ELSE [ok |-> FALSE, attributes |-> <<>>, table |-> tbl]

\* アイテムを削除: delete_item
DeleteItem(tbl, id, cond) ==
    IF ConditionHolds(tbl, id, cond)
    THEN [ok |-> TRUE, table |-> [i \in DOMAIN tbl \ {id} |-> tbl[i]]]
    ELSE [ok |-> FALSE, table |-> tbl]

\* The items of the table in scan order
RECURSIVE ItemsInOrder(_, _)
ItemsInOrder(tbl, order) ==
    IF order = <<>> THEN <<>>
    ELSE (IF Head(order) \in DOMAIN tbl THEN <<tbl[Head(order)]>> ELSE <<>>)
         \o ItemsInOrder(tbl, Tail(order))

\* Limit of scan and query: the number of items evaluated; `if 制限数:`
\* passes no Limit for None and for 0.
Evaluated(items, limit) == IF limit # NoLimit THEN Take(items, limit) ELSE items

\* スキャン実行 with FilterExpression Attr('deleted').ne(True)
ScanNotDeleted(tbl, order, limit) ==
    SelectSeq(Evaluated(ItemsInOrder(tbl, order), limit), LAMBDA it : it.deleted # TRUE)

\* スキャン実行 with FilterExpression
\* Attr('remote_url').eq(url) & Attr('deleted').ne(True)
ScanUrlNotDeleted(tbl, order, url, limit) ==
    SelectSeq(Evaluated(ItemsInOrder(tbl, order), limit),
              LAMBDA it : it.remote_url = url /\ it.deleted # TRUE)

\* The status-index GSI (partition key status, sort key updated_at, all
\* attributes projected): the items of one status, by updated_at ascending.
RECURSIVE InsertAscending(_, _)
InsertAscending(sorted, it) ==
    IF sorted = <<>> THEN <<it>>
    ELSE IF Head(sorted).updated_at <= it.updated_at
         THEN <<Head(sorted)>> \o InsertAscending(Tail(sorted), it)
         ELSE <<it>> \o sorted

RECURSIVE StatusIndex(_, _)
StatusIndex(items, status) ==
    IF items = <<>> THEN <<>>
    ELSE LET rest == StatusIndex(Tail(items), status)
         IN IF Head(items).status = status THEN InsertAscending(rest, Head(items)) ELSE rest

\* クエリ実行 on index 'status-index' with Key('status').eq(status)
QueryStatusIndex(tbl, order, status, limit, ascending) ==
    LET idx == StatusIndex(ItemsInOrder(tbl, order), status)
    IN Evaluated(IF ascending THEN idx
                 ELSE [i \in 1..Len(idx) |-> idx[Len(idx) + 1 - i]], limit)

\* ------------------------------------- manager (リポジトリリポジトリ)

\* The outcome of a call: a returned value or a raised exception.
\* An Optional result is <<>> (None) or <<x>>.
Return(v) == [kind |-> "return", error |-> "", val |-> v]
Raise(e) == [kind |-> "raise", error |-> e, val |-> <<>>]

\* a returned bool, and a returned Dict[str, int]
ReturnBool(b) == [kind |-> "return", error |-> "", bool |-> b]

ReturnCounts(c) == [kind |-> "return", error |-> "", counts |-> c]

\* [リポジトリ.DynamoDB項目から作成(item) for item in items]; <<>> for an item
\* in items = <<>>, and AllConvert tells whether no validator raises.
AllConvert(items) == \A i \in 1..Len(items) : FromDynamoDBItem(items[i]) # <<>>
ConvertAll(items) == [i \in 1..Len(items) |-> FromDynamoDBItem(items[i])[1]]

\* A search by URL that also matches the deleted items
FindRepositoryByUrlAmongAll(tbl, order, url) ==
    LET items == SelectSeq(Evaluated(ItemsInOrder(tbl, order), 1),
                           LAMBDA it : it.remote_url = url)
    IN IF items # <<>>
       THEN IF FromDynamoDBItem(items[1]) # <<>>
            THEN Return(FromDynamoDBItem(items[1]))
            ELSE Raise(DynamoDBError)
       ELSE Return(<<>>)

\* URLでリポジトリを検索 (second definition): scan with 制限数=1, first match
FindRepositoryByUrl(tbl, order, url) ==
    LET items == ScanUrlNotDeleted(tbl, order, url, 1)
    IN IF items # <<>>
       THEN IF FromDynamoDBItem(items[1]) # <<>>
            THEN Return(FromDynamoDBItem(items[1]))
            ELSE Raise(DynamoDBError)
       ELSE Return(<<>>)

\* リポジトリを作成 (second definition), up to the duplicate check: TRUE when
\* the URL search found nothing and the call goes on to the put.
CreatePassesUrlCheck(tbl, order, req) ==
    LET existing == FindRepositoryByUrl(tbl, order, req.remote_url)
    IN existing.kind = "return" /\ existing.val = <<>>

\* The outcome of リポジトリを作成 when the URL check does not pass
CreateRejected(tbl, order, req) ==
    LET existing == FindRepositoryByUrl(tbl, order, req.remote_url)
    IN IF existing.kind = "raise" THEN Raise(DynamoDBError) ELSE Raise(ConditionCheckError)

\* A put that does not assert the id is new
CreateRepositoryUnconditionalPut(tbl, req, id, now) ==
    LET obj == Repository(id, req.provider, req.remote_url, req.display_name,
                          req.default_branch, READY, NoSha, NoTime, now, now, FALSE)
    IN IF obj = <<>>
       THEN [out |-> Raise(DynamoDBError), table |-> tbl]
       ELSE [out |-> Return(obj), table |-> PutItem(tbl, ToDynamoDBItem(obj[1]), CondNone).table]

\* リポジトリを作成 (second definition), after the duplicate check: build the
\* object (its validators run here), convert, conditional put.
CreateRepository(tbl, req, id, now) ==
    LET obj == Repository(id, req.provider, req.remote_url, req.display_name,
                          req.default_branch, READY, NoSha, NoTime, now, now, FALSE)
    IN IF obj = <<>>
       THEN [out |-> Raise(DynamoDBError), table |-> tbl]
       ELSE LET put == PutItem(tbl, ToDynamoDBItem(obj[1]), CondIdNotExists)
            IN IF put.ok
               THEN [out |-> Return(obj), table |-> put.table]
               ELSE [out |-> Raise(ConditionCheckError), table |-> tbl]

\* リポジトリを取得 (second definition)
GetRepository(tbl, id) ==
    LET item == GetItem(tbl, id)
    IN IF item # <<>> /\ ~item[1].deleted
       THEN IF FromDynamoDBItem(item[1]) # <<>>
            THEN Return(FromDynamoDBItem(item[1]))
            ELSE Raise(DynamoDBError)
       ELSE Return(<<>>)

\* A listing that trusts the store to have dropped the deleted items
ListRepositoriesNoClientFilter(tbl, order, status, limit) ==
    LET items == IF status # NoStatus
                 THEN QueryStatusIndex(tbl, order, status, limit, FALSE)
                 ELSE ScanNotDeleted(tbl, order, limit)
    IN IF AllConvert(items)
       THEN Return(SortByUpdatedDesc(ConvertAll(items)))
       ELSE Raise(DynamoDBError)

\* A listing that returns the items in the order the store gave them
ListRepositoriesUnsorted(tbl, order, status, limit) ==
    LET items == IF status # NoStatus
                 THEN QueryStatusIndex(tbl, order, status, limit, TRUE)
                 ELSE ScanNotDeleted(tbl, order, limit)
        kept == SelectSeq(items, LAMBDA it : ~it.deleted)
    IN IF AllConvert(kept)
       THEN Return(ConvertAll(kept))
       ELSE Raise(DynamoDBError)

\* リポジトリ一覧を取得 (second definition)
ListRepositories(tbl, order, status, limit) ==
    LET items == IF status # NoStatus
                 THEN QueryStatusIndex(tbl, order, status, limit, FALSE)
                 ELSE ScanNotDeleted(tbl, order, limit)
        kept == SelectSeq(items, LAMBDA it : ~it.deleted)
    IN IF AllConvert(kept)
       THEN Return(SortByUpdatedDesc(ConvertAll(kept)))
       ELSE Raise(DynamoDBError)

\* An update that writes the record back whole, as created, with the changes
UpdateRepositoryWholeRecord(tbl, id, changes, now) ==
    LET upd == UpdateItem(tbl, id,
                          [updated_at |-> now] @@ changes
                              @@ [status |-> READY, display_name |-> NameWidgets],
                          CondLive)
    IN IF upd.ok
       THEN IF FromDynamoDBItem(upd.attributes[1]) # <<>>
            THEN [out |-> Return(FromDynamoDBItem(upd.attributes[1])), table |-> upd.table]
            ELSE [out |-> Raise(DynamoDBError), table |-> upd.table]
       ELSE [out |-> Return(<<>>), table |-> tbl]

\* An update that only asks for the record to exist
UpdateRepositoryAnyExisting(tbl, id, changes, now) ==
    LET upd == UpdateItem(tbl, id, [updated_at |-> now] @@ changes, CondIdExists)
    IN IF upd.ok
       THEN IF FromDynamoDBItem(upd.attributes[1]) # <<>>
            THEN [out |-> Return(FromDynamoDBItem(upd.attributes[1])), table |-> upd.table]
            ELSE [out |-> Raise(DynamoDBError), table |-> upd.table]
       ELSE [out |-> Return(<<>>), table |-> tbl]

\* リポジトリを更新 (second definition): SET every field of 更新データ and
\* updated_at, under CondLive; a failed condition returns None.
UpdateRepository(tbl, id, changes, now) ==
    LET upd == UpdateItem(tbl, id, [updated_at |-> now] @@ changes, CondLive)
    IN IF upd.ok
       THEN IF FromDynamoDBItem(upd.attributes[1]) # <<>>
            THEN [out |-> Return(FromDynamoDBItem(upd.attributes[1])), table |-> upd.table]
            ELSE [out |-> Raise(DynamoDBError), table |-> upd.table]
       ELSE [out |-> Return(<<>>), table |-> tbl]

\* A logical delete that only asks for the record to exist
DeleteRepositoryAnyExisting(tbl, id, physical, now) ==
    IF physical
    THEN LET del == DeleteItem(tbl, id, CondIdExists)
         IN IF del.ok
            THEN [out |-> ReturnBool(TRUE), table |-> del.table]
            ELSE [out |-> ReturnBool(FALSE), table |-> tbl]
    ELSE LET upd == UpdateItem(tbl, id, [deleted |-> TRUE, updated_at |-> now], CondIdExists)
         IN IF upd.ok
            THEN [out |-> ReturnBool(TRUE), table |-> upd.table]
            ELSE [out |-> ReturnBool(FALSE), table |-> tbl]

\* A delete that removes the record whatever the flag
DeleteRepositoryAlwaysPhysical(tbl, id, physical, now) ==
    LET del == DeleteItem(tbl, id, CondIdExists)
    IN IF del.ok
       THEN [out |-> ReturnBool(TRUE), table |-> del.table]
       ELSE [out |-> ReturnBool(FALSE), table |-> tbl]

\* リポジトリを削除 (second definition)
DeleteRepository(tbl, id, physical, now) ==
    IF physical
    THEN LET del == DeleteItem(tbl, id, CondIdExists)
         IN IF del.ok
            THEN [out |-> ReturnBool(TRUE), table |-> del.table]
            ELSE [out |-> ReturnBool(FALSE), table |-> tbl]
    ELSE LET upd == UpdateItem(tbl, id, [deleted |-> TRUE, updated_at |-> now], CondLive)
         IN IF upd.ok
            THEN [out |-> ReturnBool(TRUE), table |-> upd.table]
            ELSE [out |-> ReturnBool(FALSE), table |-> tbl]

\* A status update that stamps the scan time whether or not a SHA is given
UpdateStatusAlwaysStampsScan(tbl, id, newStatus, sha, now) ==
    LET changes == IF sha # NoSha
                   THEN [status |-> newStatus, last_scan_sha |-> sha, last_scan_at |-> now]
                   ELSE [status |-> newStatus, last_scan_at |-> now]
        upd == UpdateRepository(tbl, id, changes, now)
    IN IF upd.out.kind = "raise"
       THEN [out |-> Raise(DynamoDBError), table |-> upd.table]
       ELSE IF upd.out.val # <<>>
            THEN [out |-> ReturnBool(TRUE), table |-> upd.table]
            ELSE [out |-> ReturnBool(FALSE), table |-> upd.table]

\* ステータスを更新 (second definition)
UpdateStatus(tbl, id, newStatus, sha, now) ==
    LET changes == IF sha # NoSha
                   THEN [status |-> newStatus, last_scan_sha |-> sha, last_scan_at |-> now]
                   ELSE [status |-> newStatus]
        upd == UpdateRepository(tbl, id, changes, now)
    IN IF upd.out.kind = "raise"
       THEN [out |-> Raise(DynamoDBError), table |-> upd.table]
       ELSE IF upd.out.val # <<>>
            THEN [out |-> ReturnBool(TRUE), table |-> upd.table]
            ELSE [out |-> ReturnBool(FALSE), table |-> upd.table]

\* プロバイダー別リポジトリ数を取得 (second definition): a dict with a key
\* for each provider met
CountByProvider(tbl, order) ==
    LET items == ScanNotDeleted(tbl, order, NoLimit)
    IN ReturnCounts([p \in {items[i].provider : i \in 1..Len(items)} |->
                  Cardinality({i \in 1..Len(items) : items[i].provider = p})])

\* A count by status that counts every item the index returns
CountByStatusCountingDeleted(tbl, order) ==
    ReturnCounts([s \in Range(RepositoryStatus) |->
               Len(QueryStatusIndex(tbl, order, s, NoLimit, TRUE))])

\* ステータス別リポジトリ数を取得 (second definition): one query per status
CountByStatus(tbl, order) ==
    ReturnCounts([s \in Range(RepositoryStatus) |->
               Len(SelectSeq(QueryStatusIndex(tbl, order, s, NoLimit, TRUE),
                             LAMBDA it : ~it.deleted))])

\* A recent list that truncates what the scan returned before sorting it
RecentlyUpdatedTruncateFirst(tbl, order, n) ==
    LET items == ScanNotDeleted(tbl, order, NoLimit)
    IN IF AllConvert(items)
       THEN Return(SortByUpdatedDesc(Take(ConvertAll(items), n)))
       ELSE Raise(DynamoDBError)

\* 最近更新されたリポジトリを取得 (second definition)
RecentlyUpdated(tbl, order, n) ==
    LET items == ScanNotDeleted(tbl, order, NoLimit)
    IN IF AllConvert(items)
       THEN Return(Take(SortByUpdatedDesc(ConvertAll(items)), n))
       ELSE Raise(DynamoDBError)

\* ------------------------------------------------------------ inputs

\* Requests to リポジトリを作成: the same URL under two names and branches,
\* a second URL, and a URL the provider's grammar rejects.
CreateRequests ==
    { [provider |-> GITHUB, remote_url |-> UrlWidgets,
       display_name |-> NameWidgets, default_branch |-> "main"],
      [provider |-> GITHUB, remote_url |-> UrlWidgets,
       display_name |-> NameDocsPadded, default_branch |-> "develop"],
      [provider |-> CODECOMMIT, remote_url |-> UrlDocs,
       display_name |-> NameWidgets, default_branch |-> "main"],
      [provider |-> GITHUB, remote_url |-> UrlNoRepo,
       display_name |-> NameWidgets, default_branch |-> "main"] }

\* 更新データ of リポジトリを更新
UpdateChanges == { [display_name |-> NameDocs], [deleted |-> FALSE] }

\* (新ステータス, 最終スキャンSHA) of ステータスを更新: a job starts, succeeds
\* with the commit it scanned, fails
StatusUpdates == { <<PARSING, NoSha>>, <<READY, "4f2a9c1">>, <<FAILED, NoSha>> }

\* 制限数 of リポジトリ一覧を取得, 件数 of 最近更新されたリポジトリを取得
Limits == {NoLimit, 1}
RecentCounts == {0, 1, 2}

SearchUrls == {UrlWidgets, UrlDocs}

\* ------------------------------------------------------------- actions

NoArg == [none |-> TRUE]

\* The id argument of a リポジトリを作成 that raised before generating one
NoId == "None"

\* 物理削除 as passed: <<>> when the caller leaves it out
PhysicalArgs == {<<>>, <<FALSE>>, <<TRUE>>}

\* 物理削除: bool = False
PhysicalOf(arg) == IF arg = <<>> THEN FALSE ELSE arg[1]

Init ==
    /\ table = << >>
    /\ scanOrder = KeyOrder
    /\ clock = 0
    /\ pending = [p \in Callers |-> <<>>]
    /\ job = <<>>
    /\ calls = [p \in Callers |-> <<>>]
    /\ ret = [op |-> "init", arg |-> NoArg, out |-> Return(<<>>)]

\* A stamped write that changes the table reads the next instant.
Stamp(newTable) ==
    /\ newTable # table => clock < MaxClock
    /\ clock' = IF newTable # table THEN clock + 1 ELSE clock

\* リポジトリを作成, first store call: the URL search. A caller that finds
\* the URL raises; one that does not goes on to the put.
CreateCheckUrl(p, req) ==
    /\ pending[p] = <<>>
    /\ IF CreatePassesUrlCheck(table, scanOrder, req)
       THEN /\ pending' = [pending EXCEPT ![p] = <<req>>]
            /\ ret' = [op |-> "create_url_check", arg |-> [req |-> req, id |-> NoId],
                       out |-> Return(<<>>)]
       ELSE /\ pending' = pending
            /\ ret' = [op |-> "create", arg |-> [req |-> req, id |-> NoId],
                       out |-> CreateRejected(table, scanOrder, req)]
    /\ UNCHANGED <<table, scanOrder, clock, job, calls>>

\* リポジトリを作成, the rest: id, timestamp, object, conditional put
CreatePut(p, id) ==
    /\ pending[p] # <<>>
    /\ LET res == CreateRepository(table, pending[p][1], id, clock + 1)
       IN /\ Stamp(res.table)
          /\ table' = res.table
          /\ ret' = [op |-> "create", arg |-> [req |-> pending[p][1], id |-> id],
                     out |-> res.out]
    /\ pending' = [pending EXCEPT ![p] = <<>>]
    /\ UNCHANGED <<scanOrder, job, calls>>

\* リポジトリを作成, run to completion by one caller
Create(req, id) ==
    /\ \A p \in Callers : pending[p] = <<>>
    /\ IF CreatePassesUrlCheck(table, scanOrder, req)
       THEN LET res == CreateRepository(table, req, id, clock + 1)
            IN /\ Stamp(res.table)
               /\ table' = res.table
               /\ ret' = [op |-> "create", arg |-> [req |-> req, id |-> id],
                          out |-> res.out]
       ELSE /\ UNCHANGED <<table, clock>>
            /\ ret' = [op |-> "create", arg |-> [req |-> req, id |-> NoId],
                       out |-> CreateRejected(table, scanOrder, req)]
    /\ UNCHANGED <<scanOrder, pending, job, calls>>

Get(id) ==
    /\ ret' = [op |-> "get", arg |-> [id |-> id], out |-> GetRepository(table, id)]
    /\ UNCHANGED <<table, scanOrder, clock, pending, job, calls>>

List(status, limit) ==
    /\ ret' = [op |-> "list", arg |-> [status |-> status, limit |-> limit],
               out |-> ListRepositories(table, scanOrder, status, limit)]
    /\ UNCHANGED <<table, scanOrder, clock, pending, job, calls>>

Update(id, changes) ==
    /\ LET res == UpdateRepository(table, id, changes, clock + 1)
       IN /\ Stamp(res.table)
          /\ table' = res.table
          /\ ret' = [op |-> "update", arg |-> [id |-> id, changes |-> changes],
                     out |-> res.out]
    /\ UNCHANGED <<scanOrder, pending, job, calls>>

Delete(id, physical) ==
    /\ LET res == DeleteRepository(table, id, PhysicalOf(physical), clock + 1)
       IN /\ IF PhysicalOf(physical) THEN clock' = clock ELSE Stamp(res.table)
          /\ table' = res.table
          /\ ret' = [op |-> "delete", arg |-> [id |-> id, physical |-> physical],
                     out |-> res.out]
    /\ UNCHANGED <<scanOrder, pending, job, calls>>

SetStatus(id, newStatus, sha) ==
    /\ LET res == UpdateStatus(table, id, newStatus, sha, clock + 1)
       IN /\ Stamp(res.table)
          /\ table' = res.table
          /\ ret' = [op |-> "set_status",
                     arg |-> [id |-> id, status |-> newStatus, sha |-> sha],
                     out |-> res.out]
    /\ UNCHANGED <<scanOrder, pending, job, calls>>

FindByUrl(url) ==
    /\ ret' = [op |-> "find_by_url", arg |-> [url |-> url],
               out |-> FindRepositoryByUrl(table, scanOrder, url)]
    /\ UNCHANGED <<table, scanOrder, clock, pending, job, calls>>

CountProviders ==
    /\ ret' = [op |-> "count_by_provider", arg |-> NoArg,
               out |-> CountByProvider(table, scanOrder)]
    /\ UNCHANGED <<table, scanOrder, clock, pending, job, calls>>

CountStatuses ==
    /\ ret' = [op |-> "count_by_status", arg |-> NoArg,
               out |-> CountByStatus(table, scanOrder)]
    /\ UNCHANGED <<table, scanOrder, clock, pending, job, calls>>

Recent(n) ==
    /\ ret' = [op |-> "recently_updated", arg |-> [n |-> n],
               out |-> RecentlyUpdated(table, scanOrder, n)]
    /\ UNCHANGED <<table, scanOrder, clock, pending, job, calls>>

Next ==
    \/ \E req \in CreateRequests, id \in FewIds : Create(req, id)
    \/ \E id \in FewIds : Get(id)
    \/ \E status \in {NoStatus} \cup Range(RepositoryStatus), limit \in Limits :
          List(status, limit)
    \/ \E id \in FewIds, changes \in UpdateChanges : Update(id, changes)
    \/ \E id \in FewIds, physical \in PhysicalArgs : Delete(id, physical)
    \/ \E id \in FewIds, su \in StatusUpdates : SetStatus(id, su[1], su[2])
    \/ \E url \in SearchUrls : FindByUrl(url)
    \/ CountProviders
    \/ CountStatuses
    \/ \E n \in RecentCounts : Recent(n)

Spec == Init /\ [][Next]_vars

\* Concurrent registration: callers interleave at the store calls of
\* リポジトリを作成 (URL search, then put), with deletion and lookup beside them.
NextCreate ==
    \/ \E p \in Callers, req \in CreateRequests : CreateCheckUrl(p, req)
    \/ \E p \in Callers, id \in FewIds : CreatePut(p, id)
    \/ \E id \in FewIds, physical \in PhysicalArgs : Delete(id, physical)
    \/ \E url \in SearchUrls : FindByUrl(url)

SpecCreate == Init /\ [][NextCreate]_vars

\* Registration by one caller at a time, with three ids to generate
NextRegister ==
    \/ \E req \in CreateRequests, id \in RepoIds : Create(req, id)
    \/ \E id \in RepoIds, physical \in PhysicalArgs : Delete(id, physical)
    \/ \E id \in RepoIds : Get(id)
    \/ \E url \in SearchUrls : FindByUrl(url)

SpecRegister == Init /\ [][NextRegister]_vars

\* ------------------------------ the store operations called on their own

\* Items as リポジトリ.DynamoDB項目に変換 writes them
StoreItems ==
    {ToDynamoDBItem(Repository(id, GITHUB, UrlWidgets, NameWidgets, "main", st,
                               NoSha, NoTime, 1, 1, d)[1]) :
        id \in FewIds, st \in {READY, PARSING}, d \in BOOLEAN}

\* SET expressions: the one of the logical delete, and one of リポジトリを更新
StoreAssigns == {[deleted |-> TRUE, updated_at |-> 2], [status |-> FAILED, updated_at |-> 2]}

StoreConditions == {CondNone, CondIdNotExists, CondIdExists, CondLive}

\* アイテムを保存(アイテム, 条件式)
StorePut(item, cond) ==
    LET put == PutItem(table, item, cond)
    IN /\ table' = put.table
       /\ ret' = [op |-> "put_item", arg |-> [id |-> item.repo_id, item |-> item, cond |-> cond],
                  out |-> IF put.ok THEN ReturnBool(TRUE) ELSE Raise(ConditionCheckError)]
       /\ UNCHANGED <<scanOrder, clock, pending, job, calls>>

\* アイテムを更新(キー, 更新式, 式属性値, 条件式=条件式)
StoreUpdate(id, assign, cond) ==
    LET upd == UpdateItem(table, id, assign, cond)
    IN /\ table' = upd.table
       /\ ret' = [op |-> "update_item", arg |-> [id |-> id, assign |-> assign, cond |-> cond],
                  out |-> IF upd.ok THEN Return(upd.attributes) ELSE Raise(ConditionCheckError)]
       /\ UNCHANGED <<scanOrder, clock, pending, job, calls>>

\* アイテムを削除(キー, 条件式)
StoreDelete(id, cond) ==
    LET del == DeleteItem(table, id, cond)
    IN /\ table' = del.table
       /\ ret' = [op |-> "delete_item", arg |-> [id |-> id, cond |-> cond],
                  out |-> IF del.ok THEN ReturnBool(TRUE) ELSE Raise(ConditionCheckError)]
       /\ UNCHANGED <<scanOrder, clock, pending, job, calls>>

\* バッチ書き込み(アイテムリスト, 削除キーリスト): the batch writer sends the
\* puts, then the deletes, in BatchWriteItem requests that are not atomic:
\* the entries in `applied` (positions in puts \o deletes) took effect
\* before a request raised a ClientError, or all of them did and the call
\* returns True. The keys of one batch are distinct.
BatchWrite(tbl, puts, deletes, applied) ==
    LET written == {i \in applied : i <= Len(puts)}
        putIds == {puts[i].repo_id : i \in written}
        gone == {deletes[i - Len(puts)] : i \in applied \ written}
        afterPuts == [id \in DOMAIN tbl \cup putIds |->
                         IF id \in putIds
                         THEN puts[CHOOSE i \in written : puts[i].repo_id = id]
                         ELSE tbl[id]]
    IN [out |-> IF applied = 1..(Len(puts) + Len(deletes))
                THEN ReturnBool(TRUE)
                ELSE Raise(DynamoDBError),
        table |-> [id \in DOMAIN afterPuts \ gone |-> afterPuts[id]]]

\* Batches: two puts, a put and a delete, two deletes
StoreBatches ==
    {[puts |-> <<a, b>>, deletes |-> <<>>] :
        a \in {it \in StoreItems : it.repo_id = "repo-0000000a" /\ it.status = READY},
        b \in {it \in StoreItems : it.repo_id = "repo-0000000b" /\ it.status = PARSING /\ ~it.deleted}}
    \cup {[puts |-> <<a>>, deletes |-> <<"repo-0000000b">>] :
        a \in {it \in StoreItems : it.repo_id = "repo-0000000a" /\ it.status = PARSING /\ ~it.deleted}}
    \cup {[puts |-> <<>>, deletes |-> <<"repo-0000000a", "repo-0000000b">>]}

\* バッチ書き込み(アイテムリスト, 削除キーリスト)
StoreBatchWrite(batch, applied) ==
    LET res == BatchWrite(table, batch.puts, batch.deletes, applied)
    IN /\ table' = res.table
       /\ ret' = [op |-> "batch_write", arg |-> batch, out |-> res.out]
       /\ UNCHANGED <<scanOrder, clock, pending, job, calls>>

NextStore ==
    \/ \E item \in StoreItems, cond \in StoreConditions : StorePut(item, cond)
    \/ \E id \in FewIds, assign \in StoreAssigns, cond \in StoreConditions :
          StoreUpdate(id, assign, cond)
    \/ \E id \in FewIds, cond \in StoreConditions : StoreDelete(id, cond)
    \/ \E batch \in StoreBatches :
          \E applied \in SUBSET (1..(Len(batch.puts) + Len(batch.deletes))) :
             StoreBatchWrite(batch, applied)

SpecStore == Init /\ [][NextStore]_vars

\* ------------------------------------------------ model ジョブ (pydantic)

\* ジョブ種別, ジョブステータス, ジョブ優先度: str enums, a member is its value
JobType == {"PARSE_FULL", "PARSE_INCREMENTAL", "WEBHOOK_PROCESS", "CLEANUP"}

PENDING == "PENDING"
RUNNING == "RUNNING"
COMPLETED == "COMPLETED"
JobFAILED == "FAILED"
CANCELLED == "CANCELLED"
JobStatus == {PENDING, RUNNING, COMPLETED, JobFAILED, CANCELLED}

HIGH == "HIGH"
NORMAL == "NORMAL"
LOW == "LOW"
JobPriority == {HIGH, NORMAL, LOW}

\* The ValueError of a validator, raised by pydantic as a ValidationError
ValidationError == "ValidationError"

\* Enum(value): the member, or a ValueError (<<>>)
EnumOf(members, value) == IF value \in members THEN <<value>> ELSE <<>>

\* A datetime of the job model is a count of ticks since the epoch.
TicksPerSecond == 2

SecondsPerDay == 86400

TTLDays == 30

\* int(dt.timestamp()), the naive datetime read in a zone whose clock is
\* never set forward or back (the service runs in UTC)
EpochSeconds(dt) == dt \div TicksPerSecond

\* dt + timedelta(days=n)
PlusDays(dt, n) == dt + n * SecondsPerDay * TicksPerSecond

\* dt.isoformat(): the seconds and the fraction as written in the text, and
\* datetime.fromisoformat
Isoformat(dt) == <<dt \div TicksPerSecond, dt % TicksPerSecond>>

FromIsoformat(text) == text[1] * TicksPerSecond + text[2]

\* A keyword argument of a constructor call, or the field's default.
\* An Optional value is <<>> (None) or <<x>>.
Arg(kw, field, default) == IF field \in DOMAIN kw THEN kw[field] ELSE default

ProgressMin == 0

ProgressMax == 100

\* A validator that lets 100 < v through
ProgressIsValidNoUpperBound(v) == ~(v < ProgressMin)

\* 進捗率妥当性を検証
ProgressIsValid(v) == ~(v < ProgressMin \/ v > ProgressMax)

\* A TTL validator that tests `not v` where the code tests `v is None`
AutoTTLWhenFalsy(kw, createdAt) ==
    IF "ttl" \in DOMAIN kw /\ kw.ttl # 0
    THEN kw.ttl
    ELSE EpochSeconds(PlusDays(createdAt, TTLDays))

\* TTL自動設定 (pre, always): 30 days after 作成日時 when no TTL is given
AutoTTL(kw, createdAt) ==
    IF "ttl" \in DOMAIN kw THEN kw.ttl ELSE EpochSeconds(PlusDays(createdAt, TTLDays))

\* ジョブ(**kw): <<job>>, or <<>> when a validator raises. `now` and
\* `later` are the two readings of datetime.now by the default factories.
Job(kw, now, later) ==
    IF "progress" \in DOMAIN kw /\ ~ProgressIsValid(kw.progress)
    THEN <<>>
    ELSE <<[job_id |-> kw.job_id,
            repo_id |-> kw.repo_id,
            type |-> kw.type,
            status |-> Arg(kw, "status", PENDING),
            priority |-> Arg(kw, "priority", NORMAL),
            started_at |-> Arg(kw, "started_at", <<>>),
            completed_at |-> Arg(kw, "completed_at", <<>>),
            created_at |-> Arg(kw, "created_at", now),
            updated_at |-> Arg(kw, "updated_at", later),
            ttl |-> AutoTTL(kw, Arg(kw, "created_at", now)),
            executor |-> Arg(kw, "executor", <<>>),
            error_message |-> Arg(kw, "error_message", <<>>),
            progress |-> Arg(kw, "progress", 0),
            processed_files |-> Arg(kw, "processed_files", 0),
            total_files |-> Arg(kw, "total_files", <<>>),
            input_params |-> Arg(kw, "input_params", <<{}>>),
            output_result |-> Arg(kw, "output_result", <<{}>>),
            metadata |-> Arg(kw, "metadata", <<{}>>)]>>

\* One optional attribute of an item: written when `present`
Attribute(present, name, value) == IF present THEN name :> value ELSE <<>>

\* ジョブ.DynamoDB項目に変換: the optional attributes are written when truthy
JobToDynamoDBItem(j) ==
    [job_id |-> j.job_id, repo_id |-> j.repo_id, type |-> j.type,
     status |-> j.status, priority |-> j.priority,
     created_at |-> Isoformat(j.created_at), updated_at |-> Isoformat(j.updated_at),
     ttl |-> j.ttl, progress |-> j.progress, processed_files |-> j.processed_files,
     input_params |-> j.input_params, output_result |-> j.output_result,
     metadata |-> j.metadata]
    @@ Attribute(j.started_at # <<>>, "started_at",
                 IF j.started_at # <<>> THEN Isoformat(j.started_at[1]) ELSE <<>>)
    @@ Attribute(j.completed_at # <<>>, "completed_at",
                 IF j.completed_at # <<>> THEN Isoformat(j.completed_at[1]) ELSE <<>>)
    @@ Attribute(j.executor # <<>> /\ j.executor # <<"">>, "executor",
                 IF j.executor # <<>> THEN j.executor[1] ELSE "")
    @@ Attribute(j.error_message # <<>> /\ j.error_message # <<"">>, "error_message",
                 IF j.error_message # <<>> THEN j.error_message[1] ELSE "")
    @@ Attribute(j.total_files # <<>> /\ j.total_files # <<0>>, "total_files",
                 IF j.total_files # <<>> THEN j.total_files[1] ELSE 0)

\* 項目.get(name): None (<<>>) for a missing attribute
ItemGet(item, name) == IF name \in DOMAIN item THEN <<item[name]>> ELSE <<>>

\* datetime.fromisoformat(項目[name]) if 項目.get(name) else None
ItemGetTime(item, name) ==
    IF name \in DOMAIN item THEN <<FromIsoformat(item[name])>> ELSE <<>>

\* ジョブ.DynamoDB項目から作成: <<job>>, or <<>> when an enum or a validator
\* raises
JobFromDynamoDBItem(item) ==
    IF \/ EnumOf(JobType, item.type) = <<>>
       \/ EnumOf(JobStatus, item.status) = <<>>
       \/ EnumOf(JobPriority, Arg(item, "priority", NORMAL)) = <<>>
    THEN <<>>
    ELSE Job([job_id |-> item.job_id, repo_id |-> item.repo_id, type |-> item.type,
              status |-> item.status,
              priority |-> Arg(item, "priority", NORMAL),
              started_at |-> ItemGetTime(item, "started_at"),
              completed_at |-> ItemGetTime(item, "completed_at"),
              created_at |-> FromIsoformat(item.created_at),
              updated_at |-> FromIsoformat(item.updated_at),
              executor |-> ItemGet(item, "executor"),
              error_message |-> ItemGet(item, "error_message"),
              progress |-> Arg(item, "progress", 0),
              processed_files |-> Arg(item, "processed_files", 0),
              total_files |-> ItemGet(item, "total_files"),
              input_params |-> Arg(item, "input_params", <<{}>>),
              output_result |-> Arg(item, "output_result", <<{}>>),
              metadata |-> Arg(item, "metadata", <<{}>>)]
             @@ Attribute("ttl" \in DOMAIN item, "ttl",
                          IF "ttl" \in DOMAIN item THEN item.ttl ELSE 0),
             0, 0)

\* A 完了したか that does not count CANCELLED
JobIsFinishedWithoutCancelled(j) == j.status \in {COMPLETED, JobFAILED}

\* ジョブ.完了したか
JobIsFinished(j) == j.status \in {COMPLETED, JobFAILED, CANCELLED}

\* ジョブ.成功したか
JobIsSuccessful(j) == j.status = COMPLETED

\* ジョブ更新リクエスト(**kw): <<request>>, or <<>> when the validator raises
JobUpdateRequest(kw) ==
    IF "progress" \in DOMAIN kw /\ ~ProgressIsValid(kw.progress)
    THEN <<>>
    ELSE <<[status |-> ItemGet(kw, "status"),
            progress |-> ItemGet(kw, "progress"),
            error_message |-> ItemGet(kw, "error_message"),
            processed_files |-> ItemGet(kw, "processed_files"),
            total_files |-> ItemGet(kw, "total_files"),
            output_result |-> Arg(kw, "output_result", <<>>)]>>

\* A message that also carries the status
CreateSQSMessageWithStatus(j) ==
    [job_id |-> j.job_id, repo_id |-> j.repo_id, type |-> j.type,
     priority |-> j.priority, input_params |-> j.input_params,
     created_at |-> Isoformat(j.created_at), status |-> j.status]

\* SQSメッセージを作成
CreateSQSMessage(j) ==
    [job_id |-> j.job_id, repo_id |-> j.repo_id, type |-> j.type,
     priority |-> j.priority, input_params |-> j.input_params,
     created_at |-> Isoformat(j.created_at)]

\* SQSメッセージからジョブを復元: <<dict>>, or <<>> when an enum raises
RestoreJobFromSQSMessage(message) ==
    IF \/ EnumOf(JobType, message.type) = <<>>
       \/ EnumOf(JobPriority, message.priority) = <<>>
    THEN <<>>
    ELSE <<[job_id |-> message.job_id, repo_id |-> message.repo_id,
            type |-> message.type, priority |-> message.priority,
            input_params |-> Arg(message, "input_params", <<{}>>),
            created_at |-> FromIsoformat(message.created_at)]>>

\* ----------------------------------------------- the job model in use

\* The arguments every ジョブ(...) call passes
JobBase == [job_id |-> "job-00000000000a", repo_id |-> "repo-0000000a", type |-> "PARSE_FULL"]

ProgressInputs == {-1, 0, 45, 100, 101}

\* Keyword arguments of ジョブ(...)
JobCreateArgs ==
    {JobBase}
    \cup {[status |-> st] @@ JobBase : st \in JobStatus}
    \cup {[progress |-> p] @@ JobBase : p \in ProgressInputs}
    \cup {[completed_at |-> <<7>>] @@ JobBase,
          [status |-> COMPLETED, started_at |-> <<5>>, completed_at |-> <<7>>] @@ JobBase,
          [ttl |-> 9] @@ JobBase,
          [created_at |-> 3] @@ JobBase,
          [created_at |-> 3, ttl |-> 0] @@ JobBase,
          [type |-> "CLEANUP", priority |-> HIGH,
           input_params |-> <<{<<"branch", "main">>}>>] @@ JobBase,
          [input_params |-> <<>>, total_files |-> <<0>>, error_message |-> <<"">>] @@ JobBase}

\* Keyword arguments of ジョブ更新リクエスト(...)
JobUpdateArgs ==
    {[status |-> st] : st \in JobStatus}
    \cup {[progress |-> p] : p \in ProgressInputs}
    \cup {[status |-> RUNNING, progress |-> 45],
          [status |-> JobFAILED, error_message |-> "boom"]}

\* Readings of datetime.now, in ticks
JobInstants == {4, 7}

\* ジョブ(**kw)
JobCreate(kw, now, later) ==
    /\ LET made == Job(kw, now, later)
       IN /\ job' = IF made # <<>> THEN made ELSE job
          /\ ret' = [op |-> "job", arg |-> [kw |-> kw, now |-> now],
                     out |-> IF made # <<>> THEN Return(made) ELSE Raise(ValidationError)]
    /\ UNCHANGED <<table, scanOrder, clock, pending, calls>>

\* ジョブ.DynamoDB項目から作成(job.DynamoDB項目に変換())
JobReload ==
    /\ job # <<>>
    /\ LET made == JobFromDynamoDBItem(JobToDynamoDBItem(job[1]))
       IN /\ job' = IF made # <<>> THEN made ELSE job
          /\ ret' = [op |-> "job_from_item", arg |-> NoArg,
                     out |-> IF made # <<>> THEN Return(made) ELSE Raise(ValidationError)]
    /\ UNCHANGED <<table, scanOrder, clock, pending, calls>>

\* ジョブ更新リクエスト(**kw)
JobUpdate(kw) ==
    /\ LET request == JobUpdateRequest(kw)
       IN ret' = [op |-> "job_update", arg |-> [kw |-> kw],
                  out |-> IF request # <<>> THEN Return(request) ELSE Raise(ValidationError)]
    /\ UNCHANGED <<table, scanOrder, clock, pending, job, calls>>

\* job.完了したか()
JobAskFinished ==
    /\ job # <<>>
    /\ ret' = [op |-> "job_is_finished", arg |-> NoArg, out |-> ReturnBool(JobIsFinished(job[1]))]
    /\ UNCHANGED <<table, scanOrder, clock, pending, job, calls>>

\* job.成功したか()
JobAskSuccessful ==
    /\ job # <<>>
    /\ ret' = [op |-> "job_is_successful", arg |-> NoArg,
               out |-> ReturnBool(JobIsSuccessful(job[1]))]
    /\ UNCHANGED <<table, scanOrder, clock, pending, job, calls>>

\* SQSメッセージを作成(job): the message is then in flight
JobSend ==
    /\ job # <<>>
    /\ ret' = [op |-> "sqs_message", arg |-> NoArg, out |-> Return(<<CreateSQSMessage(job[1])>>)]
    /\ UNCHANGED <<table, scanOrder, clock, pending, job, calls>>

\* SQSメッセージからジョブを復元(message), of the message in flight
JobReceive ==
    /\ ret.op = "sqs_message"
    /\ LET restored == RestoreJobFromSQSMessage(ret.out.val[1])
       IN ret' = [op |-> "sqs_restore", arg |-> [message |-> ret.out.val[1]],
                  out |-> IF restored # <<>> THEN Return(restored) ELSE Raise(ValidationError)]
    /\ UNCHANGED <<table, scanOrder, clock, pending, job, calls>>

NextJob ==
    \/ \E kw \in JobCreateArgs, now \in JobInstants, later \in JobInstants :
          later >= now /\ JobCreate(kw, now, later)
    \/ JobReload
    \/ \E kw \in JobUpdateArgs : JobUpdate(kw)
    \/ JobAskFinished
    \/ JobAskSuccessful
    \/ JobSend
    \/ JobReceive

SpecJob == Init /\ [][NextJob]_vars

\* ------------------------------------------------ model ページ (pydantic)

\* ページ種別 is a str enum: a member is its value.

\* A str is a sequence of characters.
\* str.lower()
Lower(s) ==
    LET upper == <<"A", "B", "C", "D", "E", "F", "G", "H", "I", "J", "K", "L", "M",
                   "N", "O", "P", "Q", "R", "S", "T", "U", "V", "W", "X", "Y", "Z">>
        lower == <<"a", "b", "c", "d", "e", "f", "g", "h", "i", "j", "k", "l", "m",
                   "n", "o", "p", "q", "r", "s", "t", "u", "v", "w", "x", "y", "z">>
    IN [i \in 1..Len(s) |->
           IF \E k \in 1..Len(upper) : upper[k] = s[i]
           THEN lower[CHOOSE k \in 1..Len(upper) : upper[k] = s[i]]
           ELSE s[i]]

\* sub in s
Contains(s, sub) ==
    \E i \in 1..(Len(s) - Len(sub) + 1) : SubSeq(s, i, i + Len(sub) - 1) = sub

\* s.endswith(suffix)
EndsWith(s, suffix) ==
    /\ Len(suffix) <= Len(s)
    /\ SubSeq(s, Len(s) - Len(suffix) + 1, Len(s)) = suffix

\* s.split('/')[-1]: what follows the last "/"
RECURSIVE LastSegment(_)
LastSegment(s) ==
    IF s = <<>> \/ s[Len(s)] = "/" THEN <<>>
    ELSE LastSegment(SubSeq(s, 1, Len(s) - 1)) \o <<s[Len(s)]>>

\* Source paths: README.md, src/readme.py, src/api.py, docs/API.md,
\* docs/guide.md, docs/, src/, api/, Makefile, src/main.c, lib/Util.PY,
\* notes.txt, src/mapper.rs, tutorial/, dir/file, swagger/
SourcePaths ==
    {<<"R", "E", "A", "D", "M", "E", ".", "m", "d">>,
     <<"s", "r", "c", "/", "r", "e", "a", "d", "m", "e", ".", "p", "y">>,
     <<"s", "r", "c", "/", "a", "p", "i", ".", "p", "y">>,
     <<"d", "o", "c", "s", "/", "A", "P", "I", ".", "m", "d">>,
     <<"d", "o", "c", "s", "/", "g", "u", "i", "d", "e", ".", "m", "d">>,
     <<"d", "o", "c", "s", "/">>,
     <<"s", "r", "c", "/">>,
     <<"a", "p", "i", "/">>,
     <<"M", "a", "k", "e", "f", "i", "l", "e">>,
     <<"s", "r", "c", "/", "m", "a", "i", "n", ".", "c">>,
     <<"l", "i", "b", "/", "U", "t", "i", "l", ".", "P", "Y">>,
     <<"n", "o", "t", "e", "s", ".", "t", "x", "t">>,
     <<"s", "r", "c", "/", "m", "a", "p", "p", "e", "r", ".", "r", "s">>,
     <<"t", "u", "t", "o", "r", "i", "a", "l", "/">>,
     <<"d", "i", "r", "/", "f", "i", "l", "e">>,
     <<"s", "w", "a", "g", "g", "e", "r", "/">>}

\* hashlib.md5(path.encode()).hexdigest(): the digest of each source path
Md5HexDigest(path) ==
    CASE path = <<"R", "E", "A", "D", "M", "E", ".", "m", "d">> ->
          <<"0", "4", "c", "6", "e", "9", "0", "f", "a", "a", "c", "2", "6", "7", "5", "a", "a", "8", "9", "e", "2", "1", "7", "6", "d", "2", "e", "e", "c", "7", "d", "8">>
      [] path = <<"s", "r", "c", "/", "r", "e", "a", "d", "m", "e", ".", "p", "y">> ->
          <<"f", "a", "2", "0", "a", "3", "7", "a", "7", "f", "b", "4", "9", "a", "8", "a", "4", "9", "c", "f", "3", "d", "d", "f", "1", "e", "a", "4", "2", "8", "d", "9">>
      [] path = <<"s", "r", "c", "/", "a", "p", "i", ".", "p", "y">> ->
          <<"d", "a", "3", "f", "e", "d", "2", "e", "d", "3", "1", "2", "e", "d", "1", "7", "7", "1", "3", "3", "6", "1", "7", "b", "3", "0", "8", "6", "2", "a", "7", "d">>
      [] path = <<"d", "o", "c", "s", "/", "A", "P", "I", ".", "m", "d">> ->
          <<"9", "6", "c", "c", "3", "7", "8", "d", "c", "d", "e", "f", "1", "8", "0", "6", "4", "1", "1", "7", "6", "5", "0", "1", "f", "4", "2", "1", "8", "3", "c", "7">>
      [] path = <<"d", "o", "c", "s", "/", "g", "u", "i", "d", "e", ".", "m", "d">> ->
          <<"c", "0", "3", "e", "d", "f", "6", "4", "e", "c", "f", "9", "c", "2", "6", "2", "a", "c", "e", "0", "a", "7", "e", "f", "d", "2", "7", "7", "d", "e", "b", "7">>
      [] path = <<"d", "o", "c", "s", "/">> ->
          <<"4", "9", "e", "5", "6", "c", "8", "1", "7", "e", "5", "e", "5", "4", "8", "5", "4", "c", "3", "5", "e", "1", "3", "6", "9", "7", "9", "f", "9", "7", "c", "a">>
      [] path = <<"s", "r", "c", "/">> ->
          <<"6", "8", "2", "6", "7", "d", "1", "3", "0", "9", "a", "1", "a", "f", "8", "e", "8", "2", "9", "7", "e", "f", "4", "c", "3", "e", "f", "b", "c", "d", "b", "a">>
      [] path = <<"a", "p", "i", "/">> ->
          <<"0", "1", "8", "8", "a", "3", "e", "6", "d", "a", "9", "0", "5", "b", "c", "6", "0", "a", "c", "e", "b", "3", "5", "b", "f", "7", "9", "0", "b", "8", "c", "9">>
      [] path = <<"M", "a", "k", "e", "f", "i", "l", "e">> ->
          <<"b", "6", "7", "9", "1", "1", "6", "5", "6", "e", "f", "5", "d", "1", "8", "c", "4", "a", "e", "3", "6", "c", "b", "6", "7", "4", "1", "b", "7", "9", "6", "5">>
      [] path = <<"s", "r", "c", "/", "m", "a", "i", "n", ".", "c">> ->
          <<"8", "0", "3", "c", "5", "1", "7", "0", "8", "8", "8", "b", "8", "6", "4", "2", "f", "2", "a", "9", "7", "e", "5", "e", "9", "4", "2", "3", "d", "3", "9", "9">>
      [] path = <<"l", "i", "b", "/", "U", "t", "i", "l", ".", "P", "Y">> ->
          <<"4", "4", "9", "a", "d", "1", "f", "1", "2", "e", "3", "9", "5", "e", "4", "9", "c", "1", "1", "0", "9", "6", "4", "b", "3", "c", "9", "5", "8", "a", "a", "b">>
      [] path = <<"n", "o", "t", "e", "s", ".", "t", "x", "t">> ->
          <<"a", "5", "d", "5", "2", "8", "6", "f", "1", "e", "6", "7", "b", "6", "c", "d", "6", "8", "7", "6", "2", "2", "3", "e", "5", "3", "f", "9", "9", "9", "c", "4">>
      [] path = <<"s", "r", "c", "/", "m", "a", "p", "p", "e", "r", ".", "r", "s">> ->
          <<"1", "1", "e", "a", "1", "7", "4", "9", "6", "9", "c", "5", "6", "8", "7", "9", "8", "a", "0", "f", "b", "b", "2", "2", "f", "a", "e", "9", "2", "b", "c", "4">>
      [] path = <<"t", "u", "t", "o", "r", "i", "a", "l", "/">> ->
          <<"0", "7", "c", "2", "d", "f", "0", "1", "3", "b", "b", "2", "0", "6", "7", "7", "b", "8", "e", "6", "5", "a", "9", "f", "1", "8", "9", "6", "8", "d", "2", "c">>
      [] path = <<"d", "i", "r", "/", "f", "i", "l", "e">> ->
          <<"a", "1", "5", "4", "d", "b", "1", "6", "5", "1", "d", "a", "4", "3", "5", "f", "3", "8", "3", "8", "9", "1", "1", "b", "b", "0", "a", "d", "1", "b", "2", "9">>
      [] path = <<"s", "w", "a", "g", "g", "e", "r", "/">> ->
          <<"e", "1", "2", "4", "3", "7", "5", "8", "2", "4", "c", "c", "0", "a", "f", "5", "7", "9", "c", "c", "d", "b", "6", "8", "3", "d", "9", "f", "d", "c", "5", "a">>

\* A page id with twelve characters of the digest
PageIdTwelveHex(repoId, sourcePath) ==
    <<"page-", repoId, "-", Take(Md5HexDigest(sourcePath), 12)>>

\* ページIDを生成: f"page-{リポジトリID}-{パス_ハッシュ}", kept as its parts
PageIdOf(repoId, sourcePath) ==
    <<"page-", repoId, "-", Take(Md5HexDigest(sourcePath), 8)>>

\* A type inference that looks for a directory before the keywords
TypeFromSourcePathDirectoryFirst(sourcePath) ==
    LET p == Lower(sourcePath)
    IN IF Contains(p, <<"r", "e", "a", "d", "m", "e">>) THEN "README"
       ELSE IF \E ext \in {<<".", "p", "y">>, <<".", "j", "s">>, <<".", "t", "s">>,
                               <<".", "j", "a", "v", "a">>, <<".", "c", "p", "p">>,
                               <<".", "c">>, <<".", "g", "o">>, <<".", "r", "s">>} :
                  EndsWith(p, ext) THEN "CODE"
       ELSE IF Contains(p, <<"/">>) /\ LastSegment(p) = <<>> THEN "DIRECTORY"
       ELSE IF \/ Contains(p, <<"a", "p", "i">>)
               \/ Contains(p, <<"s", "w", "a", "g", "g", "e", "r">>)
               \/ Contains(p, <<"o", "p", "e", "n", "a", "p", "i">>) THEN "API"
       ELSE IF \/ Contains(p, <<"d", "o", "c">>)
               \/ Contains(p, <<"g", "u", "i", "d", "e">>)
               \/ Contains(p, <<"t", "u", "t", "o", "r", "i", "a", "l">>) THEN "GUIDE"
       ELSE "CODE"

\* ソースパスから種別を推定
TypeFromSourcePath(sourcePath) ==
    LET p == Lower(sourcePath)
    IN IF Contains(p, <<"r", "e", "a", "d", "m", "e">>) THEN "README"
       ELSE IF \E ext \in {<<".", "p", "y">>, <<".", "j", "s">>, <<".", "t", "s">>,
                               <<".", "j", "a", "v", "a">>, <<".", "c", "p", "p">>,
                               <<".", "c">>, <<".", "g", "o">>, <<".", "r", "s">>} :
                  EndsWith(p, ext) THEN "CODE"
       ELSE IF \/ Contains(p, <<"a", "p", "i">>)
               \/ Contains(p, <<"s", "w", "a", "g", "g", "e", "r">>)
               \/ Contains(p, <<"o", "p", "e", "n", "a", "p", "i">>) THEN "API"
       ELSE IF \/ Contains(p, <<"d", "o", "c">>)
               \/ Contains(p, <<"g", "u", "i", "d", "e">>)
               \/ Contains(p, <<"t", "u", "t", "o", "r", "i", "a", "l">>) THEN "GUIDE"
       ELSE IF Contains(p, <<"/">>) /\ LastSegment(p) = <<>> THEN "DIRECTORY"
       ELSE "CODE"

\* len(コンテンツ) above which the importance is high, and medium
HighContentLength == 5000

MediumContentLength == 1000

\* An importance that is high from 5000 characters on
EstimateImportanceInclusive(sourcePath, contentLength) ==
    IF \E kw \in {<<"r", "e", "a", "d", "m", "e">>, <<"m", "a", "i", "n">>, <<"i", "n", "d", "e", "x">>,
                 <<"a", "p", "p">>, <<"s", "e", "r", "v", "e", "r">>, <<"c", "l", "i", "e", "n", "t">>,
                 <<"a", "p", "i">>} :
          Contains(Lower(sourcePath), kw) THEN "high"
    ELSE IF contentLength >= HighContentLength THEN "high"
    ELSE IF contentLength > MediumContentLength THEN "medium"
    ELSE "low"

\* 重要度を推定; the content enters by its length only
EstimateImportance(sourcePath, contentLength) ==
    IF \E kw \in {<<"r", "e", "a", "d", "m", "e">>, <<"m", "a", "i", "n">>, <<"i", "n", "d", "e", "x">>,
                 <<"a", "p", "p">>, <<"s", "e", "r", "v", "e", "r">>, <<"c", "l", "i", "e", "n", "t">>,
                 <<"a", "p", "i">>} :
          Contains(Lower(sourcePath), kw) THEN "high"
    ELSE IF contentLength > HighContentLength THEN "high"
    ELSE IF contentLength > MediumContentLength THEN "medium"
    ELSE "low"

\* ページ.重要度妥当性を検証
ImportanceIsValid(v) == v \in {"high", "medium", "low"}

\* -------------------------------------------- the page functions in use

\* a returned str
ReturnText(t) == [kind |-> "return", error |-> "", text |-> t]

\* ページIDを生成(リポジトリID, ソースパス)
PageDeriveId(repoId, sourcePath) ==
    /\ ret' = [op |-> "page_id", arg |-> [repo_id |-> repoId, source_path |-> sourcePath],
               out |-> [kind |-> "return", error |-> "",
                       parts |-> PageIdOf(repoId, sourcePath)]]
    /\ UNCHANGED <<table, scanOrder, clock, pending, job, calls>>

\* ソースパスから種別を推定(ソースパス)
PageInferType(sourcePath) ==
    /\ ret' = [op |-> "page_type", arg |-> [source_path |-> sourcePath],
               out |-> ReturnText(TypeFromSourcePath(sourcePath))]
    /\ UNCHANGED <<table, scanOrder, clock, pending, job, calls>>

\* 重要度を推定(ソースパス, コンテンツ)
PageInferImportance(sourcePath, contentLength) ==
    /\ ret' = [op |-> "page_importance",
               arg |-> [source_path |-> sourcePath, content_length |-> contentLength],
               out |-> ReturnText(EstimateImportance(sourcePath, contentLength))]
    /\ UNCHANGED <<table, scanOrder, clock, pending, job, calls>>

NextPage ==
    \/ \E repoId \in FewIds, sourcePath \in SourcePaths : PageDeriveId(repoId, sourcePath)
    \/ \E sourcePath \in SourcePaths : PageInferType(sourcePath)
    \/ \E sourcePath \in SourcePaths, n \in {0, 999, 1000, 1001, 5000, 5001} :
          PageInferImportance(sourcePath, n)

SpecPage == Init /\ [][NextPage]_vars

\* ----------------------------------- router (routers/repositories.py)

\* The response of an endpoint: the status code of the returned value or of
\* the HTTPException that leaves the handler
HttpResponse(status) == [kind |-> "response", error |-> "", status |-> status]

\* register_repository, the handler on the outcome of リポジトリを作成
RegisterResponse(out) ==
    IF out.kind = "return" THEN HttpResponse(201)
    ELSE IF out.error = ConditionCheckError THEN HttpResponse(409)
    ELSE HttpResponse(500)

\* get_repository_details, on the outcome of リポジトリを取得: the handler
\* answers 404 to DynamDBアイテム未発見エラー; a None makes
\* repo_data.model_dump() raise AttributeError, which `except Exception`
\* answers with 500.
DetailsResponse(out) ==
    IF out.kind = "raise"
    THEN IF out.error = ItemNotFoundError
         THEN HttpResponse(404)
         ELSE HttpResponse(500)
    ELSE IF out.val = <<>>
         THEN HttpResponse(500)
         ELSE HttpResponse(200)

\* delete_repository, on the outcome of リポジトリを削除(repo_id, 物理削除=False):
\* the HTTPException(404) for a False result is raised inside the try
\* block, where `except Exception` catches it and raises the 500.
DeleteResponse(out) ==
    LET raisedInTry == IF out.kind = "raise" THEN <<DynamoDBError>>
                       ELSE IF ~out.bool THEN <<404>>
                       ELSE <<>>
    IN IF raisedInTry # <<>>
       THEN HttpResponse(500)
       ELSE HttpResponse(204)

\* POST /repositories/. リポジトリ登録リクエスト.URL妥当性を検証 has the
\* patterns of リポジトリ: a body that fails it is answered 422 before the
\* handler runs.
HttpRegister(req, id) ==
    /\ IF ~URLIsValid(req.provider, req.remote_url)
       THEN /\ UNCHANGED <<table, clock>>
            /\ ret' = [op |-> "http_register", arg |-> [req |-> req, id |-> NoId],
                       out |-> HttpResponse(422)]
       ELSE IF CreatePassesUrlCheck(table, scanOrder, req)
       THEN LET res == CreateRepository(table, req, id, clock + 1)
            IN /\ Stamp(res.table)
               /\ table' = res.table
               /\ ret' = [op |-> "http_register", arg |-> [req |-> req, id |-> id],
                          out |-> RegisterResponse(res.out)]
       ELSE /\ UNCHANGED <<table, clock>>
            /\ ret' = [op |-> "http_register", arg |-> [req |-> req, id |-> NoId],
                       out |-> RegisterResponse(CreateRejected(table, scanOrder, req))]
    /\ UNCHANGED <<scanOrder, pending, job, calls>>

\* GET /repositories/{repo_id}
HttpGet(id) ==
    /\ ret' = [op |-> "http_get", arg |-> [id |-> id],
               out |-> DetailsResponse(GetRepository(table, id))]
    /\ UNCHANGED <<table, scanOrder, clock, pending, job, calls>>

\* DELETE /repositories/{repo_id}
HttpDelete(id) ==
    /\ LET res == DeleteRepository(table, id, FALSE, clock + 1)
       IN /\ Stamp(res.table)
          /\ table' = res.table
          /\ ret' = [op |-> "http_delete", arg |-> [id |-> id],
                     out |-> DeleteResponse(res.out)]
    /\ UNCHANGED <<scanOrder, pending, job, calls>>

NextHttp ==
    \/ \E req \in CreateRequests, id \in FewIds : HttpRegister(req, id)
    \/ \E id \in FewIds : HttpGet(id)
    \/ \E id \in FewIds : HttpDelete(id)

SpecHttp == Init /\ [][NextHttp]_vars

\* ------------------------------------ the text validators of the models

\* ページ.タイトル妥当性を検証: <<>> for the ValueError, else the value kept
TitleMaxLen == 200

TitleValidated(v) ==
    IF v = <<>> \/ Len(Strip(v)) = 0 THEN <<>>
    ELSE IF Len(v) > TitleMaxLen THEN <<>>
    ELSE <<Strip(v)>>

\* リポジトリ(表示名=name, ...): the other arguments are valid
ConstructRepository(name) ==
    /\ LET obj == Repository("repo-0000000a", GITHUB, UrlWidgets, name, "main", READY,
                             NoSha, NoTime, 0, 0, FALSE)
       IN ret' = [op |-> "new_repository", arg |-> [text |-> name],
                  out |-> IF obj = <<>> THEN Raise(ValidationError) ELSE Return(obj)]
    /\ UNCHANGED <<table, scanOrder, clock, pending, job, calls>>

\* ページ(タイトル=title, ...): the other arguments are valid
ConstructPage(title) ==
    /\ ret' = [op |-> "new_page", arg |-> [text |-> title],
               out |-> IF TitleValidated(title) = <<>>
                       THEN Raise(ValidationError)
                       ELSE [kind |-> "return", error |-> "", title |-> TitleValidated(title)[1]]]
    /\ UNCHANGED <<table, scanOrder, clock, pending, job, calls>>

\* Texts of n letters between l leading and r trailing blanks, with the
\* lengths around each limit
NextText ==
    LET Padded(l, n, r) == [i \in 1..(l + n + r) |-> IF i <= l \/ i > l + n THEN " " ELSE "x"]
    IN \/ \E l \in 0..2, r \in 0..2 :
             \E n \in {0, 1, 2} \cup ((DisplayNameMaxLen - 2)..(DisplayNameMaxLen + 1)) :
                ConstructRepository(Padded(l, n, r))
       \/ \E l \in 0..2, r \in 0..2 :
             \E n \in {0, 1, 2} \cup ((TitleMaxLen - 2)..(TitleMaxLen + 1)) :
                ConstructPage(Padded(l, n, r))

SpecText == Init /\ [][NextText]_vars

\* ------------------------- callers of the manager on several hosts at once

\* The manager methods make their store calls synchronously, so calls on one
\* event loop do not interleave; callers on different hosts (Callers)
\* interleave at the store calls. A caller makes one call: calls[p] holds
\* the operation, its arguments, the datetime.now() read before the store
\* call (NoTime when the method reads none), the per-status counts gathered
\* so far, and the outcome (<<>> until the method returns). Registration
\* and deletion by a single caller set the table up beforehand.

\* リポジトリを更新, up to the store call: updated_at is read
EnterUpdate(p, id, changes) ==
    /\ calls[p] = <<>> /\ clock < MaxClock
    /\ clock' = clock + 1
    /\ calls' = [calls EXCEPT ![p] = <<[op |-> "update", arg |-> [id |-> id, changes |-> changes],
                                        now |-> clock + 1, counts |-> <<>>, out |-> <<>>]>>]
    /\ UNCHANGED <<table, scanOrder, pending, job, ret>>

\* ステータスを更新, up to the store call of リポジトリを更新
EnterSetStatus(p, id, newStatus, sha) ==
    /\ calls[p] = <<>> /\ clock < MaxClock
    /\ clock' = clock + 1
    /\ calls' = [calls EXCEPT ![p] = <<[op |-> "set_status",
                                        arg |-> [id |-> id, status |-> newStatus, sha |-> sha],
                                        now |-> clock + 1, counts |-> <<>>, out |-> <<>>]>>]
    /\ UNCHANGED <<table, scanOrder, pending, job, ret>>

\* リポジトリを削除, up to the store call: the logical delete reads
\* updated_at, the physical delete reads no time
EnterDelete(p, id, physical) ==
    /\ calls[p] = <<>>
    /\ ~PhysicalOf(physical) => clock < MaxClock
    /\ clock' = IF PhysicalOf(physical) THEN clock ELSE clock + 1
    /\ calls' = [calls EXCEPT ![p] = <<[op |-> "delete", arg |-> [id |-> id, physical |-> physical],
                                        now |-> IF PhysicalOf(physical) THEN NoTime ELSE clock + 1,
                                        counts |-> <<>>, out |-> <<>>]>>]
    /\ UNCHANGED <<table, scanOrder, pending, job, ret>>

\* ステータス別リポジトリ数を取得, up to the first query
EnterCount(p) ==
    /\ calls[p] = <<>>
    /\ calls' = [calls EXCEPT ![p] = <<[op |-> "count_by_status", arg |-> NoArg,
                                        now |-> NoTime, counts |-> <<>>, out |-> <<>>]>>]
    /\ UNCHANGED <<table, scanOrder, clock, pending, job, ret>>

\* The store call of an update, a status update or a delete, and the return
StoreCall(p) ==
    /\ calls[p] # <<>>
    /\ calls[p][1].out = <<>> /\ calls[p][1].op # "count_by_status"
    /\ LET c == calls[p][1]
           res == CASE c.op = "update" ->
                          UpdateRepository(table, c.arg.id, c.arg.changes, c.now)
                    [] c.op = "set_status" ->
                          UpdateStatus(table, c.arg.id, c.arg.status, c.arg.sha, c.now)
                    [] c.op = "delete" ->
                          DeleteRepository(table, c.arg.id, PhysicalOf(c.arg.physical), c.now)
       IN /\ table' = res.table
          /\ calls' = [calls EXCEPT ![p] = <<[c EXCEPT !.out = <<res.out>>]>>]
          /\ ret' = [op |-> c.op, arg |-> c.arg, out |-> res.out]
    /\ UNCHANGED <<scanOrder, clock, pending, job>>

\* ステータス別リポジトリ数を取得, one turn of the loop: the query of the
\* next status and the count of its items that are not deleted; the dict is
\* returned after the last status
CountQuery(p) ==
    /\ calls[p] # <<>>
    /\ calls[p][1].out = <<>> /\ calls[p][1].op = "count_by_status"
    /\ LET c == calls[p][1]
           s == RepositoryStatus[Len(c.counts) + 1]
           items == QueryStatusIndex(table, scanOrder, s, NoLimit, TRUE)
           counts == Append(c.counts, Len(SelectSeq(items, LAMBDA it : ~it.deleted)))
           out == ReturnCounts([st \in Range(RepositoryStatus) |->
                                  counts[CHOOSE i \in 1..Len(RepositoryStatus) :
                                            RepositoryStatus[i] = st]])
       IN IF Len(counts) < Len(RepositoryStatus)
          THEN /\ calls' = [calls EXCEPT ![p] = <<[c EXCEPT !.counts = counts]>>]
               /\ ret' = ret
          ELSE /\ calls' = [calls EXCEPT ![p] = <<[c EXCEPT !.counts = counts, !.out = <<out>>]>>]
               /\ ret' = [op |-> c.op, arg |-> c.arg, out |-> out]
    /\ UNCHANGED <<table, scanOrder, clock, pending, job>>

NextConcurrent ==
    \/ /\ \A p \in Callers : calls[p] = <<>>
       /\ \E req \in CreateRequests, id \in FewIds : Create(req, id)
    \/ /\ \A p \in Callers : calls[p] = <<>>
       /\ \E id \in FewIds, physical \in PhysicalArgs : Delete(id, physical)
    \/ \E p \in Callers, id \in FewIds, changes \in UpdateChanges : EnterUpdate(p, id, changes)
    \/ \E p \in Callers, id \in FewIds, su \in StatusUpdates : EnterSetStatus(p, id, su[1], su[2])
    \/ \E p \in Callers, id \in FewIds, physical \in PhysicalArgs : EnterDelete(p, id, physical)
    \/ \E p \in Callers : EnterCount(p)
    \/ \E p \in Callers : StoreCall(p)
    \/ \E p \in Callers : CountQuery(p)

SpecConcurrent == Init /\ [][NextConcurrent]_vars

\* ------------------------------------------------------------- properties

Live(tbl, id) == id \in DOMAIN tbl /\ ~tbl[id].deleted

LiveWithUrl(tbl, url) == {id \in DOMAIN tbl : ~tbl[id].deleted /\ tbl[id].remote_url = url}

\* C1: once a create has succeeded and its repository is not deleted, every
\* later create with the same remote URL fails with the duplicate error and
\* adds no record, whatever else the table holds.
C1_LaterCreateIsDuplicate ==
    [][ (ret'.op = "create" /\ LiveWithUrl(table, ret'.arg.req.remote_url) # {})
           => (ret'.out = Raise(ConditionCheckError) /\ table' = table) ]_vars

\* C2: in every reachable state, also under interleaved creates, no two
\* non-deleted records have the same remote URL.
C2_UrlUniqueAmongLive ==
    \A i, j \in DOMAIN table :
        (i # j /\ ~table[i].deleted /\ ~table[j].deleted)
            => table[i].remote_url # table[j].remote_url

\* C3: a soft-deleted repository is in no result of list (with or without a
\* status), findByUrl or recentlyUpdated, and is counted by neither
\* countByProvider nor countByStatus.
C3_SoftDeletedNeverReturned ==
    /\ (ret.op \in {"list", "recently_updated", "find_by_url"} /\ ret.out.kind = "return")
          => \A i \in 1..Len(ret.out.val) :
                ~ret.out.val[i].deleted /\ Live(table, ret.out.val[i].repo_id)
    /\ ret.op = "count_by_provider"
          => \A p \in DOMAIN ret.out.counts :
                ret.out.counts[p] <= Cardinality({id \in DOMAIN table :
                                      ~table[id].deleted /\ table[id].provider = p})
    /\ ret.op = "count_by_status"
          => \A st \in DOMAIN ret.out.counts :
                ret.out.counts[st] <= Cardinality({id \in DOMAIN table :
                                       ~table[id].deleted /\ table[id].status = st})

\* A listing by status ran while a soft-deleted record of that status was in
\* the index, and returned the live records of that status.
C3_Witness ==
    /\ ret.op = "list" /\ ret.arg.status # NoStatus /\ ret.arg.limit = NoLimit
    /\ ret.out.kind = "return" /\ Len(ret.out.val) >= 1
    /\ \E id \in DOMAIN table : table[id].deleted /\ table[id].status = ret.arg.status

\* C4: get returns the repository exactly when a record with the id exists
\* and is not soft-deleted; otherwise it fails with the NotFound error.
C4_GetFailsWithNotFound ==
    ret.op = "get"
        => IF Live(table, ret.arg.id)
           THEN ret.out = Return(FromDynamoDBItem(table[ret.arg.id]))
           ELSE ret.out = Raise(ItemNotFoundError)

\* C5: update of an id with no record or a soft-deleted record fails with
\* the NotFound error and leaves the table as it was.
C5_UpdateMissingIsNotFound ==
    [][ (ret'.op = "update" /\ ~Live(table, ret'.arg.id))
           => (ret'.out = Raise(ItemNotFoundError) /\ table' = table) ]_vars

\* C6: once a repository is logically deleted, get of its id reports
\* NotFound, and a physical delete of it returns true and leaves no record
\* with that id.
C6_DeleteLifecycle ==
    [][ /\ (ret'.op = "get" /\ ret'.arg.id \in DOMAIN table /\ table[ret'.arg.id].deleted)
              => ret'.out = Raise(ItemNotFoundError)
        /\ (/\ ret'.op = "delete" /\ PhysicalOf(ret'.arg.physical)
            /\ ret'.arg.id \in DOMAIN table /\ table[ret'.arg.id].deleted)
              => (ret'.out = ReturnBool(TRUE) /\ ret'.arg.id \notin DOMAIN table') ]_vars

\* C7: delete of an id with no record returns false and changes nothing,
\* physical or not; so does a logical delete of a soft-deleted repository.
C7_DeleteMissingReturnsFalse ==
    [][ (/\ ret'.op = "delete"
         /\ \/ ret'.arg.id \notin DOMAIN table
            \/ ~PhysicalOf(ret'.arg.physical) /\ table[ret'.arg.id].deleted)
           => (ret'.out = ReturnBool(FALSE) /\ table' = table) ]_vars

\* A logical delete of a record that was already soft-deleted returned false.
C7_Witness ==
    /\ ret.op = "delete" /\ ~PhysicalOf(ret.arg.physical)
    /\ ret.out = ReturnBool(FALSE)
    /\ ret.arg.id \in DOMAIN table /\ table[ret.arg.id].deleted

\* C8: delete without the physical flag (or with it false) removes no
\* record; it changes only 'deleted' and 'updated_at' of the record it
\* names, sets 'deleted' when it succeeds, and leaves every other record
\* alone. A record leaves the table only by a delete with physical = true.
C8_LogicalDeleteKeepsRecords ==
    [][ /\ (ret'.op = "delete" /\ ret'.arg.physical # <<TRUE>>)
              => /\ DOMAIN table' = DOMAIN table
                 /\ \A i \in DOMAIN table :
                       IF i = ret'.arg.id
                       THEN /\ DOMAIN table'[i] = DOMAIN table[i]
                            /\ \A f \in DOMAIN table[i] \ {"deleted", "updated_at"} :
                                  table'[i][f] = table[i][f]
                            /\ ret'.out = ReturnBool(TRUE) => table'[i].deleted = TRUE
                       ELSE table'[i] = table[i]
        /\ \A i \in DOMAIN table :
              i \notin DOMAIN table'
                 => (ret'.op = "delete" /\ ret'.arg.physical = <<TRUE>> /\ ret'.arg.id = i)
      ]_vars

\* A delete called without the flag soft-deleted one record beside another.
C8_Witness ==
    /\ ret.op = "delete" /\ ret.arg.physical = <<>> /\ ret.out = ReturnBool(TRUE)
    /\ ret.arg.id \in DOMAIN table /\ table[ret.arg.id].deleted
    /\ \E i \in DOMAIN table : i # ret.arg.id

\* C9: findByUrl returns a repository exactly when some non-deleted record
\* has that URL, whatever else the table holds, and the repository returned
\* has the URL and is not soft-deleted.
C9_FindByUrlFindsLive ==
    ret.op = "find_by_url"
        => /\ ret.out.kind = "return"
           /\ (ret.out.val # <<>>) <=> (LiveWithUrl(table, ret.arg.url) # {})
           /\ ret.out.val # <<>>
                 => (ret.out.val[1].remote_url = ret.arg.url /\ ~ret.out.val[1].deleted)

\* C10: a successful create adds exactly one record, under an id that was
\* free, with status READY, not deleted, created and updated at the same
\* instant, and changes no other record; a create that raises changes
\* nothing; and a create whose generated id is already in the table
\* (deleted or not) raises and changes nothing.
C10_CreateAddsOneNeverOverwrites ==
    [][ ret'.op = "create"
           => /\ ret'.out.kind = "return"
                    => /\ ret'.arg.id \notin DOMAIN table
                       /\ ret'.out.val[1].repo_id = ret'.arg.id
                       /\ DOMAIN table' = DOMAIN table \cup {ret'.arg.id}
                       /\ \A i \in DOMAIN table : table'[i] = table[i]
                       /\ table'[ret'.arg.id].status = READY
                       /\ table'[ret'.arg.id].deleted = FALSE
                       /\ table'[ret'.arg.id].created_at = table'[ret'.arg.id].updated_at
              /\ ret'.out.kind = "raise" => table' = table
              /\ ret'.arg.id \in DOMAIN table
                    => (ret'.out.kind = "raise" /\ table' = table) ]_vars

\* A create passed its URL check, drew the id of a stored record of another
\* URL, and failed at the conditional put.
C10_Witness ==
    /\ ret.op = "create" /\ ret.out = Raise(ConditionCheckError)
    /\ ret.arg.id \in DOMAIN table
    /\ table[ret.arg.id].remote_url # ret.arg.req.remote_url

\* C11: a conditional put, update or delete whose condition does not hold
\* fails with the condition-check error and leaves the table as it was.
C11_FailedConditionNoEffect ==
    [][ (/\ ret'.op \in {"put_item", "update_item", "delete_item"}
         /\ \/ ret'.arg.cond = CondIdNotExists /\ ret'.arg.id \in DOMAIN table
            \/ ret'.arg.cond = CondIdExists /\ ret'.arg.id \notin DOMAIN table
            \/ /\ ret'.arg.cond = CondLive
               /\ \/ ret'.arg.id \notin DOMAIN table
                  \/ /\ "deleted" \in DOMAIN table[ret'.arg.id]
                     /\ table[ret'.arg.id].deleted = TRUE)
           => (ret'.out = Raise(ConditionCheckError) /\ table' = table) ]_vars

\* A conditional update of a soft-deleted item was refused.
C11_Witness ==
    /\ ret.op = "update_item" /\ ret.arg.cond = CondLive
    /\ ret.out = Raise(ConditionCheckError)
    /\ ret.arg.id \in DOMAIN table /\ table[ret.arg.id].deleted = TRUE

\* C12: list returns repositories by update time, newest first, none of
\* them soft-deleted, and all of the status asked for when one is given.
C12_ListNewestFirst ==
    (ret.op = "list" /\ ret.out.kind = "return")
        => /\ \A i \in 1..Len(ret.out.val) - 1 :
                 ret.out.val[i].updated_at >= ret.out.val[i + 1].updated_at
           /\ \A i \in 1..Len(ret.out.val) : ~ret.out.val[i].deleted
           /\ ret.arg.status # NoStatus
                 => \A i \in 1..Len(ret.out.val) : ret.out.val[i].status = ret.arg.status

\* A listing returned two repositories, the one later in scan order first.
C12_Witness ==
    /\ ret.op = "list" /\ ret.arg.status = NoStatus /\ ret.out.kind = "return"
    /\ Len(ret.out.val) = 2
    /\ ret.out.val[1].repo_id = KeyOrder[2] /\ ret.out.val[2].repo_id = KeyOrder[1]
    /\ ret.out.val[1].updated_at > ret.out.val[2].updated_at

\* C13: the status of a stored repository changes only along
\* READY->PARSING, PARSING->READY, PARSING->FAILED and FAILED->PARSING.
C13_StatusStateMachine ==
    [][ \A id \in DOMAIN table \cap DOMAIN table' :
           table'[id].status # table[id].status
              => <<table[id].status, table'[id].status>> \in
                    {<<READY, PARSING>>, <<PARSING, READY>>,
                     <<PARSING, FAILED>>, <<FAILED, PARSING>>} ]_vars

\* C14: a job made without a status is PENDING; the status of the job
\* changes only along PENDING->RUNNING, RUNNING->COMPLETED, RUNNING->FAILED
\* and PENDING|RUNNING->CANCELLED, by a construction and by an accepted
\* update request alike, so a terminal status never changes.
C14_JobStateMachine ==
    [][ /\ (ret'.op = "job" /\ ret'.out.kind = "return" /\ "status" \notin DOMAIN ret'.arg.kw)
              => job'[1].status = PENDING
        /\ (job # <<>> /\ job' # <<>> /\ job'[1].status # job[1].status)
              => <<job[1].status, job'[1].status>> \in
                    {<<PENDING, RUNNING>>, <<RUNNING, COMPLETED>>, <<RUNNING, JobFAILED>>,
                     <<PENDING, CANCELLED>>, <<RUNNING, CANCELLED>>}
        /\ (/\ ret'.op = "job_update" /\ ret'.out.kind = "return" /\ job # <<>>
            /\ ret'.out.val[1].status # <<>>
            /\ ret'.out.val[1].status[1] # job[1].status)
              => <<job[1].status, ret'.out.val[1].status[1]>> \in
                    {<<PENDING, RUNNING>>, <<RUNNING, COMPLETED>>, <<RUNNING, JobFAILED>>,
                     <<PENDING, CANCELLED>>, <<RUNNING, CANCELLED>>} ]_vars

\* C15: a job and a job update request with progress p are accepted
\* exactly when 0 <= p <= 100; an update request without progress is
\* accepted.
C15_ProgressBounds ==
    /\ (ret.op = "job" /\ "progress" \in DOMAIN ret.arg.kw)
          => (ret.out.kind = "return"
                 <=> (0 <= ret.arg.kw.progress /\ ret.arg.kw.progress <= 100))
    /\ ret.op = "job_update"
          => IF "progress" \in DOMAIN ret.arg.kw
             THEN ret.out.kind = "return"
                     <=> (0 <= ret.arg.kw.progress /\ ret.arg.kw.progress <= 100)
             ELSE ret.out.kind = "return"

\* An update to progress 101 was refused for a job that stands at 100.
C15_Witness ==
    /\ ret.op = "job_update" /\ "progress" \in DOMAIN ret.arg.kw
    /\ ret.arg.kw.progress = 101 /\ ret.out = Raise(ValidationError)
    /\ job # <<>> /\ job[1].progress = 100

\* C16: an accepted job value with a completion timestamp has a terminal
\* status.
C16_CompletedAtImpliesTerminal ==
    (job # <<>> /\ job[1].completed_at # <<>>)
        => job[1].status \in {COMPLETED, JobFAILED, CANCELLED}

\* C17: a job made from id, repository id and type alone is PENDING, of
\* priority NORMAL and at progress 0; without a TTL given, the TTL is the
\* epoch second of the creation time plus 30 days; a TTL given is kept.
C17_JobDefaults ==
    (ret.op = "job" /\ ret.out.kind = "return")
        => /\ DOMAIN ret.arg.kw = {"job_id", "repo_id", "type"}
                 => /\ ret.out.val[1].status = PENDING
                    /\ ret.out.val[1].priority = NORMAL
                    /\ ret.out.val[1].progress = 0
           /\ IF "ttl" \in DOMAIN ret.arg.kw
              THEN ret.out.val[1].ttl = ret.arg.kw.ttl
              ELSE ret.out.val[1].ttl =
                      (ret.out.val[1].created_at + 30 * 86400 * TicksPerSecond)
                          \div TicksPerSecond

\* A job made from the three required arguments at an instant that is not
\* a whole second got its TTL 30 days later.
C17_Witness ==
    /\ ret.op = "job" /\ ret.out.kind = "return"
    /\ DOMAIN ret.arg.kw = {"job_id", "repo_id", "type"}
    /\ ret.out.val[1].created_at % TicksPerSecond # 0
    /\ ret.out.val[1].ttl = (ret.out.val[1].created_at \div TicksPerSecond) + 2592000

\* C18: 完了したか is true exactly for COMPLETED, FAILED and CANCELLED,
\* 成功したか exactly for COMPLETED.
C18_TerminalAndSuccessful ==
    /\ ret.op = "job_is_finished"
          => (ret.out.bool <=> job[1].status \in {"COMPLETED", "FAILED", "CANCELLED"})
    /\ ret.op = "job_is_successful"
          => (ret.out.bool <=> job[1].status = "COMPLETED")

\* A cancelled job was asked whether it has finished, and said yes.
C18_Witness ==
    /\ ret.op = "job_is_finished" /\ job[1].status = CANCELLED
    /\ ret.out = ReturnBool(TRUE)

\* C19: the message made from a job has the six keys job_id, repo_id,
\* type, priority, input_params and created_at and no other, and what is
\* restored from it has the job's id, repository id, type, priority, input
\* parameters and creation time.
C19_MessageRoundTrip ==
    ret.op = "sqs_restore"
        => /\ DOMAIN ret.arg.message =
                 {"job_id", "repo_id", "type", "priority", "input_params", "created_at"}
           /\ ret.out.kind = "return"
           /\ ret.out.val[1].job_id = job[1].job_id
           /\ ret.out.val[1].repo_id = job[1].repo_id
           /\ ret.out.val[1].type = job[1].type
           /\ ret.out.val[1].priority = job[1].priority
           /\ ret.out.val[1].input_params = job[1].input_params
           /\ ret.out.val[1].created_at = job[1].created_at

\* The message of a running job, created at an instant that is not a whole
\* second, was restored.
C19_Witness ==
    /\ ret.op = "sqs_restore" /\ ret.out.kind = "return"
    /\ job[1].status = RUNNING
    /\ job[1].created_at % TicksPerSecond # 0

\* C20: a create whose URL is not valid for the provider, or whose display
\* name is empty or too long, is refused with a validation error, and no
\* step of it (the scan for the URL, the put) reaches the store.
C20_ValidationBeforeStore ==
    [][ (/\ ret'.op \in {"create_url_check", "create"}
         /\ \/ ~URLIsValid(ret'.arg.req.provider, ret'.arg.req.remote_url)
            \/ ~DisplayNameIsValid(ret'.arg.req.display_name))
            => /\ ret'.op = "create"
               /\ ret'.out = Raise(ValidationError)
               /\ table' = table ]_vars

\* C21: no manager operation raises the store's condition-check error as
\* it came from the store: the only condition-check error a caller meets is
\* the one リポジトリを作成 raises itself for a URL a live repository has.
C21_ConditionFailureTranslated ==
    [][ (ret'.out.kind = "raise" /\ ret'.out.error = ConditionCheckError)
            => /\ ret'.op = "create"
               /\ ~CreatePassesUrlCheck(table, scanOrder, ret'.arg.req) ]_vars

\* C22: the result of a batch write tells which entries were applied: two
\* runs of the same call on the same table that give the caller the same
\* result have applied the same entries.
C22_BatchWritePartialFailureDetectable ==
    [][ ret'.op = "batch_write"
            => \A applied \in SUBSET (1..(Len(ret'.arg.puts) + Len(ret'.arg.deletes))) :
                  LET other == BatchWrite(table, ret'.arg.puts, ret'.arg.deletes, applied)
                  IN other.out = ret'.out => other.table = table' ]_vars

\* C23: setStatus on a live repository returns True and stores the new
\* status; it stores the SHA and the scan time exactly when a SHA is given
\* and leaves both alone otherwise; no other record changes. On an absent
\* or soft-deleted repository it returns False and the table is unchanged.
C23_SetStatusEffect ==
    [][ ret'.op = "set_status"
            => LET id == ret'.arg.id
               IN IF Live(table, id)
                  THEN /\ ret'.out.kind = "return" /\ ret'.out.bool = TRUE
                       /\ DOMAIN table' = DOMAIN table
                       /\ \A other \in DOMAIN table \ {id} : table'[other] = table[other]
                       /\ table'[id].status = ret'.arg.status
                       /\ ~table'[id].deleted
                       /\ IF ret'.arg.sha # NoSha
                          THEN /\ table'[id].last_scan_sha = ret'.arg.sha
                               /\ table'[id].last_scan_at = clock'
                          ELSE /\ table'[id].last_scan_sha = table[id].last_scan_sha
                               /\ table'[id].last_scan_at = table[id].last_scan_at
                  ELSE /\ ret'.out.kind = "return" /\ ret'.out.bool = FALSE
                       /\ table' = table ]_vars

\* A status update without a SHA succeeded on a repository that had been
\* scanned before, and the earlier SHA and scan time are still stored.
C23_Witness ==
    /\ ret.op = "set_status" /\ ret.arg.sha = NoSha
    /\ ret.out.kind = "return" /\ ret.out.bool = TRUE
    /\ table[ret.arg.id].last_scan_sha # NoSha
    /\ table[ret.arg.id].last_scan_at # NoTime
    /\ table[ret.arg.id].last_scan_at < table[ret.arg.id].updated_at

\* C24: countByStatus has an entry for each of READY, PARSING and FAILED,
\* the number of repositories of that status that are not deleted; the
\* three sum to the number of repositories that are not deleted, which is
\* also the sum of what countByProvider returns on the same table.
C24_CountByStatus ==
    ret.op = "count_by_status"
        => LET c == ret.out.counts
               p == CountByProvider(table, scanOrder).counts
           IN /\ ret.out.kind = "return"
              /\ DOMAIN c = {"READY", "PARSING", "FAILED"}
              /\ \A st \in DOMAIN c :
                    c[st] = Cardinality({id \in DOMAIN table :
                                            ~table[id].deleted /\ table[id].status = st})
              /\ c["READY"] + c["PARSING"] + c["FAILED"]
                    = Cardinality({id \in DOMAIN table : ~table[id].deleted})
              /\ c["READY"] + c["PARSING"] + c["FAILED"]
                    = (IF GITHUB \in DOMAIN p THEN p[GITHUB] ELSE 0)
                      + (IF CODECOMMIT \in DOMAIN p THEN p[CODECOMMIT] ELSE 0)

\* The statuses were counted on a table with a live READY repository and a
\* soft-deleted READY one: one count is 1, the other two are 0.
C24_Witness ==
    /\ ret.op = "count_by_status"
    /\ \E a, b \in DOMAIN table :
          /\ table[a].deleted /\ table[a].status = READY
          /\ ~table[b].deleted /\ table[b].status = READY
    /\ ret.out.counts["READY"] = 1
    /\ ret.out.counts["PARSING"] = 0 /\ ret.out.counts["FAILED"] = 0

\* C25: recentlyUpdated(n) returns min(n, number of repositories that are
\* not deleted) repositories, each one a different stored repository that
\* is not deleted, newest update first; a repository it leaves out is
\* soft-deleted or was updated no later than every one returned.
C25_RecentlyUpdated ==
    ret.op = "recently_updated"
        => LET out == ret.out.val
               live == {id \in DOMAIN table : ~table[id].deleted}
               returned == {out[i].repo_id : i \in 1..Len(out)}
           IN /\ ret.out.kind = "return"
              /\ Len(out) = (IF ret.arg.n <= Cardinality(live)
                             THEN ret.arg.n ELSE Cardinality(live))
              /\ Cardinality(returned) = Len(out)
              /\ \A i \in 1..Len(out) :
                    /\ out[i].repo_id \in live
                    /\ <<out[i]>> = FromDynamoDBItem(table[out[i].repo_id])
              /\ \A i \in 1..Len(out), k \in 1..Len(out) :
                    i < k => out[i].updated_at >= out[k].updated_at
              /\ \A id \in DOMAIN table \ returned :
                    \/ table[id].deleted
                    \/ \A i \in 1..Len(out) : table[id].updated_at <= out[i].updated_at

\* One repository was asked for while two were live, and the one that the
\* scan meets second, the newer, was returned.
C25_Witness ==
    /\ ret.op = "recently_updated" /\ ret.arg.n = 1
    /\ Cardinality({id \in DOMAIN table : ~table[id].deleted}) = 2
    /\ Len(ret.out.val) = 1
    /\ ret.out.val[1].repo_id = scanOrder[2]

\* C26: the id derived for (repositoryId, sourcePath) is "page-", the
\* repository id, "-" and 8 hexadecimal characters; a second derivation
\* for the same pair gives the same id, and the 8 characters are the same
\* whatever the repository id.
C26_PageIdDeterministic ==
    ret.op = "page_id"
        => LET id == ret.out.parts
           IN /\ Len(id) = 4
              /\ id[1] = "page-" /\ id[2] = ret.arg.repo_id /\ id[3] = "-"
              /\ Len(id[4]) = 8
              /\ \A i \in 1..Len(id[4]) :
                    id[4][i] \in {"0", "1", "2", "3", "4", "5", "6", "7", "8", "9",
                                  "a", "b", "c", "d", "e", "f"}
              /\ PageIdOf(ret.arg.repo_id, ret.arg.source_path) = id
              /\ \A other \in RepoIds : PageIdOf(other, ret.arg.source_path)[4] = id[4]

\* The id of README.md was derived for the second repository: its last
\* part is the head of the MD5 digest of the path.
C26_Witness ==
    /\ ret.op = "page_id" /\ ret.arg.repo_id = "repo-0000000b"
    /\ ret.arg.source_path = <<"R", "E", "A", "D", "M", "E", ".", "m", "d">>
    /\ ret.out.parts[4] = <<"0", "4", "c", "6", "e", "9", "0", "f">>

\* C27: the type inferred from a path follows the first rule that matches
\* its lower-cased form: "readme" anywhere gives README; else a source-code
\* extension gives CODE; else "api", "swagger" or "openapi" gives API; else
\* "doc", "guide" or "tutorial" gives GUIDE; else a path ending in "/"
\* gives DIRECTORY; else CODE.
C27_InferTypePriority ==
    ret.op = "page_type"
        => LET p == Lower(ret.arg.source_path)
               t == ret.out.text
               readme == Contains(p, <<"r", "e", "a", "d", "m", "e">>)
               code == \E ext \in {<<".", "p", "y">>, <<".", "j", "s">>, <<".", "t", "s">>,
                                    <<".", "j", "a", "v", "a">>, <<".", "c", "p", "p">>,
                                    <<".", "c">>, <<".", "g", "o">>, <<".", "r", "s">>} :
                          EndsWith(p, ext)
               api == \/ Contains(p, <<"a", "p", "i">>)
                      \/ Contains(p, <<"s", "w", "a", "g", "g", "e", "r">>)
                      \/ Contains(p, <<"o", "p", "e", "n", "a", "p", "i">>)
               guide == \/ Contains(p, <<"d", "o", "c">>)
                        \/ Contains(p, <<"g", "u", "i", "d", "e">>)
                        \/ Contains(p, <<"t", "u", "t", "o", "r", "i", "a", "l">>)
               directory == p # <<>> /\ p[Len(p)] = "/"
           IN /\ t = (IF readme THEN "README"
                      ELSE IF code THEN "CODE"
                      ELSE IF api THEN "API"
                      ELSE IF guide THEN "GUIDE"
                      ELSE IF directory THEN "DIRECTORY"
                      ELSE "CODE")
              /\ t = "DIRECTORY" => (directory /\ ~readme /\ ~api /\ ~guide)
              /\ ret.arg.source_path = <<"R", "E", "A", "D", "M", "E", ".", "m", "d">> => t = "README"
              /\ ret.arg.source_path = <<"s", "r", "c", "/", "r", "e", "a", "d", "m", "e", ".", "p", "y">> => t = "README"
              /\ ret.arg.source_path = <<"s", "r", "c", "/", "a", "p", "i", ".", "p", "y">> => t = "CODE"
              /\ ret.arg.source_path = <<"l", "i", "b", "/", "U", "t", "i", "l", ".", "P", "Y">> => t = "CODE"
              /\ ret.arg.source_path = <<"d", "o", "c", "s", "/", "A", "P", "I", ".", "m", "d">> => t = "API"
              /\ ret.arg.source_path = <<"s", "w", "a", "g", "g", "e", "r", "/">> => t = "API"
              /\ ret.arg.source_path = <<"d", "o", "c", "s", "/", "g", "u", "i", "d", "e", ".", "m", "d">> => t = "GUIDE"
              /\ ret.arg.source_path = <<"d", "o", "c", "s", "/">> => t = "GUIDE"
              /\ ret.arg.source_path = <<"s", "r", "c", "/">> => t = "DIRECTORY"
              /\ ret.arg.source_path = <<"d", "i", "r", "/", "f", "i", "l", "e">> => t = "CODE"
              /\ ret.arg.source_path = <<"M", "a", "k", "e", "f", "i", "l", "e">> => t = "CODE"

\* The type of "docs/" was inferred: a path that ends in "/" and holds the
\* keyword "doc" is a GUIDE.
C27_Witness ==
    /\ ret.op = "page_type" /\ ret.arg.source_path = <<"d", "o", "c", "s", "/">>
    /\ ret.out.text = "GUIDE"

\* C28: the importance inferred is "high" when the lower-cased path holds
\* one of readme, main, index, app, server, client, api; otherwise "high"
\* for a content of more than 5000 characters, "medium" for more than 1000
\* and up to 5000, "low" up to 1000; it is a value the page model accepts.
C28_InferImportance ==
    ret.op = "page_importance"
        => LET p == Lower(ret.arg.source_path)
               n == ret.arg.content_length
               v == ret.out.text
           IN /\ v \in {"high", "medium", "low"}
              /\ ImportanceIsValid(v)
              /\ IF \/ Contains(p, <<"r", "e", "a", "d", "m", "e">>)
                    \/ Contains(p, <<"m", "a", "i", "n">>)
                    \/ Contains(p, <<"i", "n", "d", "e", "x">>)
                    \/ Contains(p, <<"a", "p", "p">>)
                    \/ Contains(p, <<"s", "e", "r", "v", "e", "r">>)
                    \/ Contains(p, <<"c", "l", "i", "e", "n", "t">>)
                    \/ Contains(p, <<"a", "p", "i">>)
                 THEN v = "high"
                 ELSE /\ v = "high" <=> n > 5000
                      /\ v = "medium" <=> (1000 < n /\ n <= 5000)
                      /\ v = "low" <=> n <= 1000
              /\ (ret.arg.source_path = <<"R", "E", "A", "D", "M", "E", ".", "m", "d">>) => v = "high"
              /\ (ret.arg.source_path = <<"n", "o", "t", "e", "s", ".", "t", "x", "t">> /\ n = 5000) => v = "medium"
              /\ (ret.arg.source_path = <<"n", "o", "t", "e", "s", ".", "t", "x", "t">> /\ n = 1000) => v = "low"

\* The importance of a path without a keyword was inferred for a content
\* of exactly 5000 characters: medium.
C28_Witness ==
    /\ ret.op = "page_importance" /\ ret.arg.source_path = <<"n", "o", "t", "e", "s", ".", "t", "x", "t">>
    /\ ret.arg.content_length = 5000
    /\ ret.out.text = "medium"

\* C29: GET /repositories/{repo_id} for an id that is absent or
\* soft-deleted is answered 404.
C29_HttpGetMissingIs404 ==
    [][ (ret'.op = "http_get" /\ ~Live(table, ret'.arg.id))
            => ret'.out.status = 404 ]_vars

\* C30: DELETE /repositories/{repo_id} is answered 204 when the repository
\* was live and is now soft-deleted, and 404 when it is absent or already
\* soft-deleted.
C30_HttpDeleteStatus ==
    [][ ret'.op = "http_delete"
            => IF Live(table, ret'.arg.id)
               THEN /\ ret'.out.status = 204
                    /\ ret'.arg.id \in DOMAIN table' /\ table'[ret'.arg.id].deleted
               ELSE ret'.out.status = 404 ]_vars

\* C31: a repository is constructed exactly when the trimmed display name
\* has 1 to 100 characters, a page exactly when the trimmed title has 1 to
\* 200 characters, and the value kept is the trimmed one.
C31_TrimmedLengthRule ==
    [][ /\ ret'.op = "new_repository"
            => IF Len(Strip(ret'.arg.text)) \in 1..100
               THEN /\ ret'.out.kind = "return"
                    /\ ret'.out.val[1].display_name = Strip(ret'.arg.text)
               ELSE ret'.out.kind = "raise"
        /\ ret'.op = "new_page"
            => IF Len(Strip(ret'.arg.text)) \in 1..200
               THEN /\ ret'.out.kind = "return"
                    /\ ret'.out.title = Strip(ret'.arg.text)
               ELSE ret'.out.kind = "raise" ]_vars

\* C32: a record whose soft-delete flag is set is never changed by any step
\* of the callers; it can only leave the table, by a physical delete of
\* its id.
C32_SoftDeletePermanent ==
    [][ \A id \in DOMAIN table :
           table[id].deleted
               => \/ id \in DOMAIN table' /\ table'[id] = table[id]
                  \/ /\ id \notin DOMAIN table'
                     /\ ret'.op = "delete" /\ ret'.arg.id = id
                     /\ PhysicalOf(ret'.arg.physical) /\ ret'.out.bool ]_vars

\* An update with deleted = false that read its timestamp before the
\* logical delete of another caller, and reached the store after it: it
\* returned None and the record carries the delete's timestamp.
C32_Witness ==
    \E p \in Callers : \E q \in Callers \ {p} :
       /\ calls[p] # <<>> /\ calls[q] # <<>>
       /\ calls[p][1].op = "update" /\ calls[p][1].arg.changes = [deleted |-> FALSE]
       /\ calls[q][1].op = "delete" /\ ~PhysicalOf(calls[q][1].arg.physical)
       /\ calls[q][1].arg.id = calls[p][1].arg.id
       /\ calls[p][1].now < calls[q][1].now
       /\ calls[q][1].out = <<ReturnBool(TRUE)>>
       /\ calls[p][1].out = <<Return(<<>>)>>
       /\ calls[p][1].arg.id \in DOMAIN table
       /\ table[calls[p][1].arg.id].deleted
       /\ table[calls[p][1].arg.id].updated_at = calls[q][1].now

\* C33: of two callers that delete the same repository in the same mode at
\* once, one gets true and the other false: the delete whose store call
\* finds the repository (not deleted, for a logical delete; stored, for a
\* physical one) returns true, and a delete that reaches the store after
\* the same delete of the other caller returned true returns false.
C33_OneWinnerDeletes ==
    [][ \A p \in Callers : \A q \in Callers \ {p} :
           ( /\ calls[p] # <<>> /\ calls[p][1].op = "delete"
             /\ calls[p][1].out = <<>> /\ calls'[p][1].out # <<>> )
               => LET id == calls[p][1].arg.id
                      physical == PhysicalOf(calls[p][1].arg.physical)
                      won == calls'[p][1].out[1].bool
                  IN /\ (IF physical THEN id \in DOMAIN table ELSE Live(table, id)) => won
                     /\ ( /\ calls[q] # <<>> /\ calls[q][1].op = "delete"
                          /\ calls[q][1].arg.id = id
                          /\ PhysicalOf(calls[q][1].arg.physical) = physical
                          /\ calls[q][1].out = <<ReturnBool(TRUE)>> ) => ~won ]_vars

\* Two logical deletes of one repository that overlap: the caller that read
\* its timestamp first reached the store last and got false, the other
\* got true.
C33_Witness ==
    \E p \in Callers : \E q \in Callers \ {p} :
       /\ calls[p] # <<>> /\ calls[q] # <<>>
       /\ calls[p][1].op = "delete" /\ calls[q][1].op = "delete"
       /\ calls[p][1].arg.id = calls[q][1].arg.id
       /\ ~PhysicalOf(calls[p][1].arg.physical) /\ ~PhysicalOf(calls[q][1].arg.physical)
       /\ calls[p][1].now < calls[q][1].now
       /\ calls[p][1].out = <<ReturnBool(FALSE)>>
       /\ calls[q][1].out = <<ReturnBool(TRUE)>>
       /\ table[calls[p][1].arg.id].updated_at = calls[q][1].now

\* C34: when one caller sets the status of a repository and the other
\* changes its display name at once, and both calls succeed, the record
\* carries the new status and the new display name, whichever store call
\* came first.
C34_DisjointUpdatesBothKept ==
    \A p \in Callers : \A q \in Callers \ {p} :
       ( /\ calls[p] # <<>> /\ calls[q] # <<>>
         /\ calls[p][1].op = "set_status" /\ calls[q][1].op = "update"
         /\ calls[p][1].arg.id = calls[q][1].arg.id
         /\ "display_name" \in DOMAIN calls[q][1].arg.changes
         /\ calls[p][1].out = <<ReturnBool(TRUE)>>
         /\ calls[q][1].out # <<>>
         /\ calls[q][1].out[1].kind = "return" /\ calls[q][1].out[1].val # <<>> )
           => LET id == calls[p][1].arg.id
              IN /\ id \in DOMAIN table
                 /\ table[id].status = calls[p][1].arg.status
                 /\ table[id].display_name = calls[q][1].arg.changes.display_name
                 /\ calls[p][1].arg.sha # NoSha
                        => table[id].last_scan_sha = calls[p][1].arg.sha

\* The status update read its timestamp first and reached the store last,
\* after the display-name update had written: both changes are in the record.
C34_Witness ==
    \E p \in Callers : \E q \in Callers \ {p} :
       /\ calls[p] # <<>> /\ calls[q] # <<>>
       /\ calls[p][1].op = "set_status" /\ calls[q][1].op = "update"
       /\ calls[p][1].arg.id = calls[q][1].arg.id
       /\ calls[p][1].arg.status = PARSING
       /\ calls[q][1].arg.changes = [display_name |-> NameDocs]
       /\ calls[p][1].out = <<ReturnBool(TRUE)>>
       /\ calls[q][1].out # <<>> /\ calls[q][1].out[1].val # <<>>
       /\ calls[p][1].now < calls[q][1].now
       /\ table[calls[p][1].arg.id].updated_at = calls[p][1].now
       /\ table[calls[p][1].arg.id].status = PARSING
       /\ table[calls[p][1].arg.id].display_name = NameDocs

\* C35: when the only call that runs beside a count by status is a status
\* update, the counts returned sum to the number of repositories that are
\* not deleted.
C35_CountSumUnderStatusUpdates ==
    [][ \A p \in Callers : \A q \in Callers \ {p} :
           ( /\ calls[p] # <<>> /\ calls[p][1].op = "count_by_status"
             /\ calls[p][1].out = <<>> /\ calls'[p][1].out # <<>>
             /\ calls[q] # <<>> => calls[q][1].op = "set_status" )
               => LET c == calls'[p][1].out[1].counts
                  IN c[READY] + c[PARSING] + c[FAILED]
                        = Cardinality({id \in DOMAIN table : ~table[id].deleted}) ]_vars

\* C36: a listing returns min(limit, n) repositories, n the number of
\* repositories that are not deleted (and have the status asked for, when
\* one is given); without a limit it returns all n.
C36_ListCompleteUnderLimit ==
    [][ ret'.op = "list"
            => LET matching == {id \in DOMAIN table :
                                   /\ ~table[id].deleted
                                   /\ ret'.arg.status # NoStatus
                                          => table[id].status = ret'.arg.status}
                   n == Cardinality(matching)
               IN /\ ret'.out.kind = "return"
                  /\ Len(ret'.out.val) = IF ret'.arg.limit # NoLimit /\ ret'.arg.limit < n
                                         THEN ret'.arg.limit
                                         ELSE n ]_vars

\* C37: a create with a valid request and a fresh id succeeds when every
\* record with its URL has been deleted: the table gains one record under
\* the new id, not deleted, and the records already stored, the logically
\* deleted ones among them, stay as they were.
C37_UrlReusableAfterDelete ==
    [][ ( /\ ret'.op = "create"
          /\ URLIsValid(ret'.arg.req.provider, ret'.arg.req.remote_url)
          /\ DisplayNameIsValid(ret'.arg.req.display_name)
          /\ LiveWithUrl(table, ret'.arg.req.remote_url) = {} )
            => /\ ret'.arg.id # NoId
               /\ ret'.arg.id \notin DOMAIN table
                     => /\ ret'.out.kind = "return"
                        /\ DOMAIN table' = DOMAIN table \cup {ret'.arg.id}
                        /\ ~table'[ret'.arg.id].deleted
                        /\ table'[ret'.arg.id].remote_url = ret'.arg.req.remote_url
                        /\ ret'.out.val[1].repo_id = ret'.arg.id
                        /\ \A id \in DOMAIN table : table'[id] = table[id] ]_vars

\* A repository registered again under a new id, beside the logically
\* deleted record of the same URL
C37_Witness ==
    /\ ret.op = "create" /\ ret.out.kind = "return"
    /\ \E old \in DOMAIN table \ {ret.arg.id} :
          /\ table[old].deleted
          /\ table[old].remote_url = ret.arg.req.remote_url
          /\ table[old].updated_at < table[ret.arg.id].created_at
    /\ ~table[ret.arg.id].deleted

\* C38: the job made from the stored item of a job equals that job in
\* every field.
C38_JobItemRoundTrip ==
    [][ ret'.op = "job_from_item"
            => /\ ret'.out.kind = "return"
               /\ ret'.out.val = job
               /\ job' = job ]_vars

====
